---- MODULE Spec2Model ----
(***************************************************************************)
(* A model of the casting solidification solver                            *)
(* (backend/simulation/fenics_solver.py), of the two HTTP handlers that    *)
(* drive it (backend/app.py) and of the lighter standalone pass            *)
(* (backend/simulation/simulate.py, thermal_step.py, materials.py) with    *)
(* the clustering that follows it (hotspots.py, pipeline.py).              *)
(*                                                                         *)
(* Number representation.  The program computes in IEEE doubles; the model *)
(* computes in integers:                                                   *)
(*   - a temperature is an integer number of degrees Celsius, or NaN;      *)
(*   - node coordinates are given in millimetres, as in the mesh contract, *)
(*     and converted to decimetres where the program converts to metres;   *)
(*   - a conductance (W/K) is a whole number of half watts per kelvin;     *)
(*   - the linear solve is exact (Cramer's rule over the integers) and its *)
(*     result is rounded to the nearest degree; a singular matrix gives    *)
(*     the NaN-filled vector scipy's spsolve returns.                      *)
(***************************************************************************)
EXTENDS Integers, Sequences, FiniteSets, TLC

(***************************************************************************)
(* Floating point: NaN and comparisons that are false on NaN               *)
(***************************************************************************)
NaN == -1000000

IsNaN(x) == x = NaN

\* np.inf
Inf == 1000000
IsInf(x) == x = Inf

\* a < b, a <= b, a > b, a >= b on doubles: false when either side is NaN
FLt(a, b) == ~IsNaN(a) /\ ~IsNaN(b) /\ a < b
FLe(a, b) == ~IsNaN(a) /\ ~IsNaN(b) /\ a <= b
FGt(a, b) == FLt(b, a)
FGe(a, b) == FLe(b, a)

Abs(a) == IF a < 0 THEN -a ELSE a
Min(a, b) == IF a <= b THEN a ELSE b
Max(a, b) == IF a >= b THEN a ELSE b

\* quotient truncated towards zero (the same magnitude for a and -a)
Quot(a, b) == IF (a < 0) = (b < 0) THEN Abs(a) \div Abs(b) ELSE -(Abs(a) \div Abs(b))

\* quotient rounded to the nearest integer, halves away from zero
RoundDiv(a, b) ==
    IF (a < 0) = (b < 0) THEN (2 * Abs(a) + Abs(b)) \div (2 * Abs(b))
    ELSE -((2 * Abs(a) + Abs(b)) \div (2 * Abs(b)))

RECURSIVE SqrtSearch(_, _, _)
SqrtSearch(n, lo, hi) ==
    IF lo >= hi THEN lo
    ELSE LET mid == (lo + hi + 1) \div 2
         IN  IF mid * mid <= n THEN SqrtSearch(n, mid, hi) ELSE SqrtSearch(n, lo, mid - 1)

\* floor of the square root
ISqrt(n) == SqrtSearch(n, 0, Min(n, 46340))

\* the tuple <<f[1], ..., f[n]>>, each entry computed once
RECURSIVE ToSeqRange(_, _, _)
ToSeqRange(f, lo, hi) ==
    IF lo > hi THEN <<>>
    ELSE IF lo = hi THEN <<f[lo]>>
    ELSE LET mid == (lo + hi) \div 2 IN ToSeqRange(f, lo, mid) \o ToSeqRange(f, mid + 1, hi)
ToSeq(f, n) == ToSeqRange(f, 1, n)

\* the vector indexed 0..n-1 (a numpy array) holding the entries of the tuple s
Vec(s) == [i \in 0..(Len(s) - 1) |-> s[i + 1]]

\* the sum of f[1], ..., f[n]
RECURSIVE SumRange(_, _, _)
SumRange(f, lo, hi) ==
    IF lo > hi THEN 0
    ELSE IF lo = hi THEN f[lo]
    ELSE LET mid == (lo + hi) \div 2 IN SumRange(f, lo, mid) + SumRange(f, mid + 1, hi)
SumOver(f, n) == SumRange(f, 1, n)

\* the members of a finite set of integers in increasing order
SortedSeq(S) ==
    ToSeq([k \in 1..Cardinality(S) |->
              CHOOSE x \in S : Cardinality({y \in S : y < x}) = k - 1], Cardinality(S))

\* the principal submatrix of A on the index set S, as dense rows

(***************************************************************************)
(* 3-vectors and small dense matrices (sequences of rows)                  *)
(***************************************************************************)
VSub(a, b) == <<a[1] - b[1], a[2] - b[2], a[3] - b[3]>>
VAdd(a, b) == <<a[1] + b[1], a[2] + b[2], a[3] + b[3]>>
VScale(c, a) == <<c * a[1], c * a[2], c * a[3]>>
Dot(a, b) == a[1] * b[1] + a[2] * b[2] + a[3] * b[3]
Cross(a, b) == <<a[2] * b[3] - a[3] * b[2], a[3] * b[1] - a[1] * b[3], a[1] * b[2] - a[2] * b[1]>>

\* the sequence s without its k-th entry
Drop(s, k) == SubSeq(s, 1, k - 1) \o SubSeq(s, k + 1, Len(s))

\* the matrix without row r and column c
Minor(A, r, c) ==
    ToSeq([i \in 1..(Len(A) - 1) |-> Drop(A[IF i < r THEN i ELSE i + 1], c)], Len(A) - 1)

RECURSIVE Det(_)
Det(A) ==
    IF Len(A) = 1 THEN A[1][1]
    ELSE LET term(j) == IF A[1][j] = 0 THEN 0
                        ELSE (IF j % 2 = 1 THEN 1 ELSE -1) * A[1][j] * Det(Minor(A, 1, j))
         IN  SumOver([j \in 1..Len(A) |-> term(j)], Len(A))

\* the cofactor matrix of a 3x3 matrix: inv(J).T = Cofactor(J) / det(J)
Cofactor(J) ==
    LET cof(r, c) == (IF (r + c) % 2 = 0 THEN 1 ELSE -1) * Det(Minor(J, r, c))
    IN  <<(<<cof(1, 1), cof(1, 2), cof(1, 3)>>),
          (<<cof(2, 1), cof(2, 2), cof(2, 3)>>),
          (<<cof(3, 1), cof(3, 2), cof(3, 3)>>)>>

MatVec(A, v) == <<Dot(A[1], v), Dot(A[2], v), Dot(A[3], v)>>

(***************************************************************************)
(* Material table                                                          *)
(* shrinkage is in tenths of a percent, niyama_critical in tenths.         *)
(***************************************************************************)
MATERIALS ==
    [aluminum |->
        [name |-> "Aluminum Alloy A356", liquidus |-> 615, solidus |-> 555,
         density |-> 2685, k_liquid |-> 95, k_solid |-> 180,
         cp_liquid |-> 1080, cp_solid |-> 960, latent_heat |-> 389000,
         shrinkage |-> 65, niyama_critical |-> 10],
     steel |->
        [name |-> "Carbon Steel", liquidus |-> 1495, solidus |-> 1450,
         density |-> 7850, k_liquid |-> 35, k_solid |-> 50,
         cp_liquid |-> 680, cp_solid |-> 490, latent_heat |-> 260000,
         shrinkage |-> 30, niyama_critical |-> 5]]

(***************************************************************************)
(* Meshes handed to the solver.  mesh_data is None (none = TRUE) or a dict *)
(* with the keys `keys`; nodes are millimetre coordinates, elements and    *)
(* surface triangles are tuples of 0-based node indices.                   *)
(***************************************************************************)
MeshDict(ks, ns, es, ts) ==
    [none |-> FALSE, keys |-> ks, nodes |-> ns, elements |-> es, surface_triangles |-> ts]

AllKeys == {"nodes", "elements", "surface_triangles", "boundary_nodes"}

\* a right tetrahedron with 100 mm legs
TetNodes == <<(<<0, 0, 0>>), (<<100, 0, 0>>), (<<0, 100, 0>>), (<<0, 0, 100>>)>>
\* four coplanar nodes: every tetrahedron over them has zero volume
FlatNodes == <<(<<0, 0, 0>>), (<<100, 0, 0>>), (<<0, 100, 0>>), (<<100, 100, 0>>)>>
TetFaces == <<(<<0, 1, 2>>), (<<0, 1, 3>>), (<<0, 2, 3>>), (<<1, 2, 3>>)>>
OneTet == <<(<<0, 1, 2, 3>>)>>

MeshNone == [none |-> TRUE, keys |-> {}, nodes |-> <<>>, elements |-> <<>>, surface_triangles |-> <<>>]
MeshTet == MeshDict(AllKeys, TetNodes, OneTet, TetFaces)
MeshTetOneFace == MeshDict(AllKeys, TetNodes, OneTet, <<(<<0, 1, 2>>)>>)
MeshTetInsulated == MeshDict(AllKeys, TetNodes, OneTet, <<>>)
MeshTetNoSurfKey == MeshDict({"nodes", "elements"}, TetNodes, OneTet, <<>>)
MeshFlat == MeshDict(AllKeys, FlatNodes, OneTet, <<>>)
MeshFlatSurf == MeshDict(AllKeys, FlatNodes, OneTet, <<(<<0, 1, 2>>), (<<1, 2, 3>>)>>)
MeshLooseNode == MeshDict(AllKeys, TetNodes \o <<(<<200, 200, 200>>)>>, OneTet, TetFaces)
MeshSliver == MeshDict(AllKeys, TetNodes \o <<(<<100, 100, 0>>)>>,
                       <<(<<0, 1, 2, 3>>), (<<0, 1, 2, 4>>)>>,
                       TetFaces \o <<(<<1, 2, 4>>)>>)
MeshNoNodesKey == MeshDict({"elements"}, <<>>, OneTet, <<>>)
MeshNoElementsKey == MeshDict({"nodes", "surface_triangles"}, TetNodes, <<>>, TetFaces)
MeshEmptyNodes == MeshDict(AllKeys, <<>>, OneTet, <<>>)
MeshEmptyElements == MeshDict(AllKeys, TetNodes, <<>>, TetFaces)
MeshThreeNodes == MeshDict(AllKeys, <<(<<0, 0, 0>>), (<<100, 0, 0>>), (<<0, 100, 0>>)>>,
                           <<(<<0, 1, 2, 2>>)>>, <<(<<0, 1, 2>>)>>)

\* meshes on which a run can be computed
RunMeshes ==
    {MeshTet, MeshTetOneFace, MeshTetInsulated, MeshTetNoSurfKey, MeshFlat, MeshFlatSurf,
     MeshLooseNode, MeshSliver}
\* meshes the constructor has to reject
BadMeshes ==
    {MeshNone, MeshNoNodesKey, MeshNoElementsKey, MeshEmptyNodes, MeshEmptyElements,
     MeshThreeNodes}
Meshes == RunMeshes \cup BadMeshes

(***************************************************************************)
(* ProfessionalSolidificationSolver: geometry and assembly                 *)
(***************************************************************************)
n_nodes_of(mesh) == Len(mesh.nodes)
n_elems_of(mesh) == Len(mesh.elements)

\* self.nodes[i] * 1e-3: the model converts millimetres to decimetres
NodeDm(mesh, i) == LET p == mesh.nodes[i + 1] IN <<Quot(p[1], 100), Quot(p[2], 100), Quot(p[3], 100)>>
ElemCoords(mesh, elem) ==
    <<NodeDm(mesh, elem[1]), NodeDm(mesh, elem[2]), NodeDm(mesh, elem[3]), NodeDm(mesh, elem[4])>>

grad_hat == <<(<<-1, -1, -1>>), (<<1, 0, 0>>), (<<0, 1, 0>>), (<<0, 0, 1>>)>>

\* _tet_shape_grads_and_volume: grads[a] / detJ is the gradient of shape function a
\* (per decimetre), vol6 = |detJ| is six times the volume (cubic decimetres).
\* At or below the volume tolerance the gradients are zero and the volume is 0.
ZeroVolumeGrads ==
    [grads |-> <<(<<0, 0, 0>>), (<<0, 0, 0>>), (<<0, 0, 0>>), (<<0, 0, 0>>)>>, detJ |-> 0, vol6 |-> 0]

ColumnStack(u, v, w) == <<(<<u[1], v[1], w[1]>>), (<<u[2], v[2], w[2]>>), (<<u[3], v[3], w[3]>>)>>

tet_shape_grads_and_volume(coords) ==
    LET J == ColumnStack(VSub(coords[2], coords[1]), VSub(coords[3], coords[1]),
                         VSub(coords[4], coords[1]))
        detJ == Det(J)
        J_inv_T == Cofactor(J)
    IN  IF Abs(detJ) <= 0 THEN ZeroVolumeGrads
        ELSE [grads |-> <<MatVec(J_inv_T, grad_hat[1]), MatVec(J_inv_T, grad_hat[2]),
                          MatVec(J_inv_T, grad_hat[3]), MatVec(J_inv_T, grad_hat[4])>>,
              detJ |-> detJ, vol6 |-> Abs(detJ)]

\* thermal conductivity averaged between the phases, in the conductance quantum:
\* k_avg * vol * (grad_a . grad_b) = ((k_liquid + k_solid) / 60) * (G_a . G_b) / |detJ|
\* half watts per kelvin
k_quantum(mat) == (mat.k_liquid + mat.k_solid) \div 60

\* Ke filled for a >= b only
ElemStiffness_lower_triangle(mat, gv, a, b) ==
    IF a < b THEN 0 ELSE k_quantum(mat) * Quot(Dot(gv.grads[a], gv.grads[b]), gv.vol6)

\* Ke[a, b] of one element
ElemStiffness(mat, gv, a, b) ==
    k_quantum(mat) * Quot(Dot(gv.grads[a], gv.grads[b]), gv.vol6)

\* the gradients and volume of every element, computed once
ElemGeometry(mesh) ==
    ToSeq([e \in 1..n_elems_of(mesh) |->
              tet_shape_grads_and_volume(ElemCoords(mesh, mesh.elements[e]))], n_elems_of(mesh))

\* the element's contribution to K[i, j]; an element of no volume is skipped
ElemK(mat, elem, gv, i, j) ==
    IF gv.vol6 <= 0 THEN 0
    ELSE SumOver([a \in 1..4 |-> SumOver([b \in 1..4 |->
            IF elem[a] = i /\ elem[b] = j THEN ElemStiffness(mat, gv, a, b) ELSE 0], 4)], 4)

\* the lumped mass with an element of no volume given a minimum volume
ElemM_minimum_volume(mat, elem, gv, i) ==
    SumOver([a \in 1..4 |-> IF elem[a] = i THEN mat.density * Max(gv.vol6, 1) ELSE 0], 4)

\* the element's contribution to M[i, i]: rho * vol / 4, in units of 1/24000 kg
ElemM(mat, elem, gv, i) ==
    IF gv.vol6 <= 0 THEN 0
    ELSE SumOver([a \in 1..4 |-> IF elem[a] = i THEN mat.density * gv.vol6 ELSE 0], 4)

\* a surface triangle's share for node i: area / 3, in units of 1/6000 square metre
TriShare(mesh, tri, i) ==
    LET p0 == NodeDm(mesh, tri[1])
        p1 == NodeDm(mesh, tri[2])
        p2 == NodeDm(mesh, tri[3])
        c == Cross(VSub(p1, p0), VSub(p2, p0))
        share == ISqrt(100 * Dot(c, c))
    IN  SumOver([v \in 1..3 |-> IF tri[v] = i THEN share ELSE 0], 3)

\* _assemble_matrices: stiffness K, lumped mass M (its diagonal), boundary area per node
AssembleK(mesh, mat) ==
    LET n == n_nodes_of(mesh)
        geo == ElemGeometry(mesh)
        entry(i, j) == SumOver([e \in 1..n_elems_of(mesh) |->
                           ElemK(mat, mesh.elements[e], geo[e], i, j)], n_elems_of(mesh))
    IN  Vec(ToSeq([r \in 1..n |-> Vec(ToSeq([c \in 1..n |-> entry(r - 1, c - 1)], n))], n))

AssembleM(mesh, mat) ==
    LET n == n_nodes_of(mesh)
        geo == ElemGeometry(mesh)
    IN  Vec(ToSeq([r \in 1..n |->
            SumOver([e \in 1..n_elems_of(mesh) |->
                ElemM(mat, mesh.elements[e], geo[e], r - 1)], n_elems_of(mesh))], n))

AssembleBcArea(mesh) ==
    LET n == n_nodes_of(mesh)
    IN  Vec(ToSeq([r \in 1..n |->
            IF "surface_triangles" \in mesh.keys
            THEN SumOver([t \in 1..Len(mesh.surface_triangles) |->
                     TriShare(mesh, mesh.surface_triangles[t], r - 1)],
                     Len(mesh.surface_triangles))
            ELSE 0], n))

\* an assembly that leaves the boundary loop out
assemble_matrices_no_boundary(mesh, mat) ==
    [K |-> AssembleK(mesh, mat), M |-> AssembleM(mesh, mat),
     node_bc_area |-> [i \in 0..(n_nodes_of(mesh) - 1) |-> 0]]

assemble_matrices(mesh, mat) ==
    [K |-> AssembleK(mesh, mat), M |-> AssembleM(mesh, mat), node_bc_area |-> AssembleBcArea(mesh)]

(***************************************************************************)
(* Phase model and the implicit step                                       *)
(***************************************************************************)
\* liquid fractions are kept as numerators over (liquidus - solidus)
FracOne(mat) == mat.liquidus - mat.solidus

\* np.clip(x, lo, hi): NaN stays NaN
Clip(x, lo, hi) == IF IsNaN(x) THEN NaN ELSE Max(lo, Min(hi, x))

\* the lever rule for one node
LeverRule(mat, Ti) == IF IsNaN(Ti) THEN NaN ELSE Clip(Ti - mat.solidus, 0, FracOne(mat))

\* _update_phase
update_phase(mat, Tvec) == [i \in DOMAIN Tvec |-> LeverRule(mat, Tvec[i])]

cp_avg(mat) == (mat.cp_liquid + mat.cp_solid) \div 2
dT_phase(mat) == Max(mat.liquidus - mat.solidus, 1)

\* C_eff of one node: cp + L/dT in the mushy zone
IsMushyFrac(mat, lf) == FGt(lf, 0) /\ FLt(lf, FracOne(mat))
C_eff(mat, lf) ==
    IF IsMushyFrac(mat, lf) THEN cp_avg(mat) + mat.latent_heat \div dT_phase(mat) ELSE cp_avg(mat)

h_bc == 300

\* mii * C_eff[i] / dt_s, in half watts per kelvin
MassCoef(mat, M, lf, dt_s, i) ==
    IF M[i] # 0 THEN (M[i] * C_eff(mat, lf[i])) \div (12000 * dt_s) ELSE 0

\* h_bc * area_i, in half watts per kelvin
RobinCoef(area, i) == IF area[i] > 0 THEN (h_bc * area[i]) \div 3000 ELSE 0

\* the system A * T_next = b of one step, as dense rows over the nodes 0..n-1
SystemMatrix(mat, K, M, area, lf, dt_s, n) ==
    ToSeq([r \in 1..n |-> ToSeq([c \in 1..n |->
        K[r - 1][c - 1]
        + (IF r = c THEN MassCoef(mat, M, lf, dt_s, r - 1) + RobinCoef(area, r - 1) ELSE 0)], n)], n)

\* the right-hand side with a boundary that heats: the exchange is with a medium far
\* hotter than the ambient
SystemRhs_heating_boundary(mat, M, area, lf, dt_s, Tvec, T_ambient, n) ==
    ToSeq([r \in 1..n |->
        IF M[r - 1] # 0 /\ IsNaN(Tvec[r - 1]) THEN NaN
        ELSE (IF M[r - 1] # 0 THEN MassCoef(mat, M, lf, dt_s, r - 1) * Tvec[r - 1] ELSE 0)
             + RobinCoef(area, r - 1) * (T_ambient + 2000)], n)

SystemRhs(mat, M, area, lf, dt_s, Tvec, T_ambient, n) ==
    ToSeq([r \in 1..n |->
        IF M[r - 1] # 0 /\ IsNaN(Tvec[r - 1]) THEN NaN
        ELSE (IF M[r - 1] # 0 THEN MassCoef(mat, M, lf, dt_s, r - 1) * Tvec[r - 1] ELSE 0)
             + RobinCoef(area, r - 1) * T_ambient], n)

\* scipy.sparse.linalg.spsolve: the solution of A x = b; for a singular A it warns
\* and returns the vector filled with NaN
ReplaceColumn(A, c, b) ==
    ToSeq([r \in 1..Len(A) |-> ToSeq([k \in 1..Len(A) |-> IF k = c THEN b[r] ELSE A[r][k]], Len(A))],
          Len(A))

spsolve(A, b) ==
    LET d == Det(A)
    IN  IF d = 0 \/ (\E r \in 1..Len(b) : IsNaN(b[r]))
        THEN ToSeq([r \in 1..Len(A) |-> NaN], Len(A))
        ELSE ToSeq([r \in 1..Len(A) |-> RoundDiv(Det(ReplaceColumn(A, r, b)), d)], Len(A))

\* np.maximum(x, y): NaN propagates
Maximum(x, y) == IF IsNaN(x) \/ IsNaN(y) THEN NaN ELSE Max(x, y)

\* _solve_timestep: the new temperature vector
solve_timestep(mat, K, M, area, lf, dt_s, Tvec, T_ambient) ==
    LET n == Cardinality(DOMAIN Tvec)
        A == SystemMatrix(mat, K, M, area, lf, dt_s, n)
        b == SystemRhs(mat, M, area, lf, dt_s, Tvec, T_ambient, n)
        x == spsolve(A, b)
    IN  Vec(ToSeq([r \in 1..n |-> Maximum(x[r], T_ambient)], n))

(***************************************************************************)
(* Derived fields                                                          *)
(***************************************************************************)
\* a - b on doubles
FSub(a, b) == IF IsNaN(a) \/ IsNaN(b) THEN NaN ELSE a - b

\* |grad T| of one element in K/m: the norm of sum_a grads[a] * Te[a]
ElemGradMag(elem, gv, Tvec) ==
    IF \E a \in 1..4 : IsNaN(Tvec[elem[a]]) THEN NaN
    ELSE LET g == VAdd(VAdd(VScale(Tvec[elem[1]], gv.grads[1]), VScale(Tvec[elem[2]], gv.grads[2])),
                       VAdd(VScale(Tvec[elem[3]], gv.grads[3]), VScale(Tvec[elem[4]], gv.grads[4])))
         IN  ISqrt(100 * Dot(g, g)) \div gv.vol6

\* _compute_gradient: the mean over the incident elements that have a volume;
\* a node with no such element keeps its old value
compute_gradient(mesh, Tvec, old_grad) ==
    LET n == n_nodes_of(mesh)
        m == n_elems_of(mesh)
        geo == ElemGeometry(mesh)
        gmag == ToSeq([e \in 1..m |->
                    IF geo[e].vol6 <= 0 THEN 0 ELSE ElemGradMag(mesh.elements[e], geo[e], Tvec)], m)
        hits(e, i) == IF geo[e].vol6 <= 0 THEN 0
                      ELSE Cardinality({a \in 1..4 : mesh.elements[e][a] = i})
        count(i) == SumOver([e \in 1..m |-> hits(e, i)], m)
        nan(i) == \E e \in 1..m : hits(e, i) > 0 /\ IsNaN(gmag[e])
        total(i) == SumOver([e \in 1..m |-> IF hits(e, i) > 0 THEN hits(e, i) * gmag[e] ELSE 0], m)
    IN  Vec(ToSeq([r \in 1..n |->
            IF count(r - 1) > 0
            THEN (IF nan(r - 1) THEN NaN ELSE total(r - 1) \div count(r - 1))
            ELSE old_grad[r - 1]], n))

\* the mushy band of _compute_niyama and _save_state: Ts <= T <= Tl
InBand(mat, Ti) == FLe(Ti, mat.liquidus) /\ FGe(Ti, mat.solidus)

\* grad / (|cooling rate| + eps) in tenths, rounded up; the cooling rate is dT / dt_s
NiyamaValue(g, dT, dt_s) ==
    IF IsNaN(g) \/ IsNaN(dT) THEN NaN
    ELSE IF g = 0 THEN 0
    ELSE IF dT = 0 THEN Min(g, 200) * 10000000
    ELSE Max(1, (g * 10 * dt_s) \div Abs(dT))

\* _compute_niyama without the mushy mask
compute_niyama_unmasked(m, Tvec, grad, dTvec, dts) ==
    [i \in DOMAIN Tvec |-> NiyamaValue(grad[i], dTvec[i], dts)]

\* _compute_niyama: zero everywhere, then the criterion on the mushy nodes
compute_niyama(mat, Tvec, grad, dTvec, dt_s) ==
    [i \in DOMAIN Tvec |-> IF InBand(mat, Tvec[i]) THEN NiyamaValue(grad[i], dTvec[i], dt_s) ELSE 0]

\* _save_state(t): the snapshot of the current state
save_state(mat, t_s, Tvec, lf, ny) ==
    [time_s |-> t_s,
     temperature |-> Tvec,
     liquid_fraction |-> lf,
     liquid_nodes |-> Cardinality({i \in DOMAIN Tvec : FGt(Tvec[i], mat.liquidus)}),
     mushy_nodes |-> Cardinality({i \in DOMAIN Tvec : InBand(mat, Tvec[i])}),
     solid_nodes |-> Cardinality({i \in DOMAIN Tvec : FLt(Tvec[i], mat.solidus)}),
     hotspot_nodes |-> {i \in DOMAIN Tvec : FGt(Tvec[i], mat.liquidus)},
     porosity_nodes |-> {i \in DOMAIN Tvec : FGt(ny[i], 0) /\ FLt(ny[i], mat.niyama_critical)}]

\* the test satisfied by one solid node instead of all of them
FullySolid_some_node(mat, Tvec, lf) ==
    /\ \E i \in DOMAIN Tvec : FLe(Tvec[i], mat.solidus)
    /\ \E i \in DOMAIN lf : FLe(lf[i], 0)

\* the test that ends the loop early: fully solid by temperature and by phase fraction
FullySolid(mat, Tvec, lf) ==
    /\ \A i \in DOMAIN Tvec : FLe(Tvec[i], mat.solidus)
    /\ \A i \in DOMAIN lf : FLe(lf[i], 0)

(***************************************************************************)
(* Constructor validation and the final result                             *)
(***************************************************************************)
\* __init__ without the check of a negative ambient temperature
ctor_error_no_negative_check(mesh, mat_name, T_init, T_amb) ==
    IF mat_name \notin DOMAIN MATERIALS THEN "unknown_material"
    ELSE IF T_init < MATERIALS[mat_name].solidus THEN "initial_below_solidus"
    ELSE IF T_amb >= T_init THEN "ambient_not_below_initial"
    ELSE IF mesh.none \/ mesh.keys = {} \/ "nodes" \notin mesh.keys \/ "elements" \notin mesh.keys
         THEN "invalid_mesh_data"
    ELSE IF n_nodes_of(mesh) = 0 THEN "mesh_no_nodes"
    ELSE IF n_elems_of(mesh) = 0 THEN "mesh_no_elements"
    ELSE IF n_nodes_of(mesh) < 4 THEN "mesh_too_small"
    ELSE "ok"

\* __init__ without the minimum of 4 nodes
ctor_error_no_minimum(mesh, mat_name, T_init, T_amb) ==
    IF mat_name \notin DOMAIN MATERIALS THEN "unknown_material"
    ELSE IF T_init < MATERIALS[mat_name].solidus THEN "initial_below_solidus"
    ELSE IF T_amb >= T_init THEN "ambient_not_below_initial"
    ELSE IF T_amb < 0 THEN "ambient_negative"
    ELSE IF mesh.none \/ mesh.keys = {} \/ "nodes" \notin mesh.keys \/ "elements" \notin mesh.keys
         THEN "invalid_mesh_data"
    ELSE IF n_nodes_of(mesh) = 0 THEN "mesh_no_nodes"
    ELSE IF n_elems_of(mesh) = 0 THEN "mesh_no_elements"
    ELSE "ok"

\* __init__: the first check that raises, or "ok"
ctor_error(mesh, mat_name, T_init, T_amb) ==
    IF mat_name \notin DOMAIN MATERIALS THEN "unknown_material"
    ELSE IF T_init < MATERIALS[mat_name].solidus THEN "initial_below_solidus"
    ELSE IF T_amb >= T_init THEN "ambient_not_below_initial"
    ELSE IF T_amb < 0 THEN "ambient_negative"
    ELSE IF mesh.none \/ mesh.keys = {} \/ "nodes" \notin mesh.keys \/ "elements" \notin mesh.keys
         THEN "invalid_mesh_data"
    ELSE IF n_nodes_of(mesh) = 0 THEN "mesh_no_nodes"
    ELSE IF n_elems_of(mesh) = 0 THEN "mesh_no_elements"
    ELSE IF n_nodes_of(mesh) < 4 THEN "mesh_too_small"
    ELSE "ok"

ParameterErrors ==
    {"unknown_material", "initial_below_solidus", "ambient_not_below_initial", "ambient_negative"}
MeshErrors == {"invalid_mesh_data", "mesh_no_nodes", "mesh_no_elements", "mesh_too_small"}

\* np.max / np.min / np.mean of a vector: NaN as soon as one entry is NaN
HasNaN(v) == \E i \in DOMAIN v : IsNaN(v[i])
VecMax(v) == IF HasNaN(v) THEN NaN ELSE CHOOSE x \in {v[i] : i \in DOMAIN v} : \A j \in DOMAIN v : v[j] <= x
VecMin(v) == IF HasNaN(v) THEN NaN ELSE CHOOSE x \in {v[i] : i \in DOMAIN v} : \A j \in DOMAIN v : v[j] >= x

\* the caps of the three lists of the defect report and the isolation distance, in mm
HotspotCap == 20
PorosityCap == 50
FeedingCap == 20
IsolationMm == 30

\* the Python slice s[:k]
Slice(s, k) == SubSeq(s, 1, Min(k, Len(s)))

\* the place of s[j] when the more severe records come last
SortRank_ascending(s, j) ==
    1 + Cardinality({i \in 1..Len(s) : s[i].severity < s[j].severity})
      + Cardinality({i \in 1..(j - 1) : s[i].severity = s[j].severity})

\* list.sort(key = severity, reverse = True), descending and stable: the place of s[j]
\* is after the more severe records and after the earlier ones of the same severity
SortRank(s, j) ==
    1 + Cardinality({i \in 1..Len(s) : s[i].severity > s[j].severity})
      + Cardinality({i \in 1..(j - 1) : s[i].severity = s[j].severity})
SortBySeverity(s) ==
    ToSeq([k \in 1..Len(s) |-> s[CHOOSE j \in 1..Len(s) : SortRank(s, j) = k]], Len(s))

\* the squared distance of two nodes, in square millimetres
Dist2(mesh, i, j) ==
    LET d == VSub(mesh.nodes[i + 1], mesh.nodes[j + 1]) IN Dot(d, d)

\* np.min(dists) ** 2 for node i against the other hot nodes
MinDist2(mesh, i, others) ==
    CHOOSE d \in {Dist2(mesh, i, j) : j \in others} :
        \A j \in others : d <= Dist2(mesh, i, j)

\* _elem_volume, six times the volume in cubic millimetres
elem_volume6(mesh, elem) ==
    Abs(Dot(VSub(mesh.nodes[elem[2] + 1], mesh.nodes[elem[1] + 1]),
            Cross(VSub(mesh.nodes[elem[3] + 1], mesh.nodes[elem[1] + 1]),
                  VSub(mesh.nodes[elem[4] + 1], mesh.nodes[elem[1] + 1]))))

\* _analyze_defects: severities in thousandths, distances in hundredths of a millimetre
analyze_defects(mesh, mat, T_init, Tvec, ny) ==
    LET Tl == mat.liquidus
        hot == {i \in DOMAIN Tvec : FGt(Tvec[i], Tl)}
        hotspot_indices == SortedSeq(hot)
        hotspots == [k \in 1..Len(hotspot_indices) |->
            LET i == hotspot_indices[k]
            IN  [node_id |-> i, location |-> mesh.nodes[i + 1], temperature |-> Tvec[i],
                 severity |-> IF T_init = Tl THEN Inf
                              ELSE Quot((Tvec[i] - Tl) * 1000, T_init - Tl)]]
        porosity_indices ==
            SortedSeq({i \in DOMAIN ny : FGt(ny[i], 0) /\ FLt(ny[i], mat.niyama_critical)})
        porosity_zones == [k \in 1..Len(porosity_indices) |->
            LET i == porosity_indices[k]
            IN  [node_id |-> i, location |-> mesh.nodes[i + 1], niyama_value |-> ny[i],
                 severity |-> ((mat.niyama_critical - ny[i]) * 1000) \div mat.niyama_critical]]
        isolated == SelectSeq(hotspot_indices,
                        LAMBDA i : hot \ {i} # {}
                                   /\ MinDist2(mesh, i, hot \ {i}) > IsolationMm * IsolationMm)
        feeding_issues == [k \in 1..Len(isolated) |->
            LET i == isolated[k]
                dist == ISqrt(10000 * MinDist2(mesh, i, hot \ {i}))
            IN  [node_id |-> i, location |-> mesh.nodes[i + 1], isolation_distance |-> dist,
                 severity |-> (dist * 10) \div IsolationMm]]
        total_vol6 == SumOver([e \in 1..Len(mesh.elements) |->
                                  elem_volume6(mesh, mesh.elements[e])], Len(mesh.elements))
    IN  [hotspots |-> Slice(ToSeq(hotspots, Len(hotspot_indices)), HotspotCap),
         porosity_zones |->
            Slice(SortBySeverity(ToSeq(porosity_zones, Len(porosity_indices))), PorosityCap),
         feeding_issues |-> Slice(ToSeq(feeding_issues, Len(isolated)), FeedingCap),
         shrinkage_estimate |->
            [total_volume_mm3 |-> total_vol6 \div 6,
             shrinkage_volume_mm3 |-> (total_vol6 * mat.shrinkage) \div 6000,
             shrinkage_percentage |-> mat.shrinkage]]

\* the final_result dict of solve
FinalResult(mesh, mat_name, T_init, total_time, res, Tvec, ny) ==
    LET defects == analyze_defects(mesh, MATERIALS[mat_name], T_init, Tvec, ny)
    IN  [timesteps |-> res,
         mesh |-> [nodes |-> mesh.nodes, surface_triangles |-> mesh.surface_triangles],
         material |-> mat_name,
         defect_analysis |-> defects,
         summary |-> [total_time |-> total_time,
                      num_timesteps |-> Len(res),
                      final_temperature |-> [max |-> VecMax(Tvec), min |-> VecMin(Tvec)],
                      defects_detected |-> Len(defects.porosity_zones) > 0 \/ Len(defects.hotspots) > 0]]

(***************************************************************************)
(* Bounds of the explored inputs                                           *)
(***************************************************************************)
\* the longest simulated duration, in minutes
MaxMinutes == 4
\* the largest save_interval
MaxSaveInterval == 2

MaterialNames == {"aluminum", "steel", "bronze"}

\* the mesh handed to run_sim: one tetrahedron of volume 4, in the units of its caller
SimMesh ==
    [nodes |-> <<(<<0, 0, 0>>), (<<2, 0, 0>>), (<<0, 3, 0>>), (<<0, 0, 4>>)>>,
     elements |-> OneTet, surface_triangles |-> TetFaces]
InitialTemps == {550, 555, 560, 600, 700}
AmbientTemps == {-5, 0, 25, 600}
Durations == {1, MaxMinutes}
DtSeconds == {60, 90}
DtMinutes == {1, 2}
\* "stream" is run_simulation_stream.generate, "sync" is run_simulation, "direct" is any
\* other code that constructs the solver and drives solve itself
Callers == {"stream", "sync", "direct"}

\* the keyword arguments of solve.  The two endpoints pass literals (dt_seconds = 15,
\* max_total_minutes = 180: 720 steps); the model draws the step size and the duration
\* from the bounded sets instead and keeps the flags the endpoints pass.
SolveArgs(c) ==
    {a \in [streaming : BOOLEAN, run_until_solid : BOOLEAN, save_interval : 1..MaxSaveInterval,
            dt_seconds : DtSeconds, max_total_minutes : Durations,
            dt : DtMinutes, total_time : Durations] :
        /\ c = "stream" => a.streaming /\ a.run_until_solid /\ a.save_interval = 1
        /\ c = "sync" => ~a.streaming /\ a.run_until_solid /\ a.save_interval = 1
        \* arguments the chosen mode does not read are held at one value
        /\ a.run_until_solid => a.dt = 1 /\ a.total_time = 1
        /\ ~a.run_until_solid => a.dt_seconds = 60 /\ a.max_total_minutes = 1}

NoArgs ==
    [streaming |-> FALSE, run_until_solid |-> FALSE, save_interval |-> 1, dt_seconds |-> 60,
     max_total_minutes |-> 1, dt |-> 1, total_time |-> 1]

(***************************************************************************)
(* State                                                                   *)
(***************************************************************************)
VARIABLES
    caller,         \* who drives the solver
    mesh_data, material, initial_temp, ambient_temp,    \* the constructor arguments
    args,           \* the keyword arguments of solve
    pc,             \* the position of the run
    error,          \* the exception raised, "none" if none
    constructed,    \* __init__ ran to its end
    T, T_prev, liquid_frac, cooling_rate, grad_T, niyama,   \* the solver's state vectors
    K, M, node_bc_area,     \* locals of solve: the assembled operators
    n_steps, dt_s, step, results,   \* locals of solve: time setup, loop counter, snapshots
    solved,         \* the number of calls of _solve_timestep
    events,         \* what the generator of solve has yielded
    stream,         \* the frames generate has sent
    ret,            \* what the call solver.solve(...) evaluated to
    final_result,   \* the final_result dict, once built
    response,       \* the HTTP status of run_simulation
    sim_pc,         \* the position of run_sim
    sim_mesh, facets, alloy, bc, time_cfg,  \* the arguments of run_sim
    sim_T,          \* run_sim: the temperature field T
    t_solid,        \* run_sim: the time-to-solidify of every node
    min_niyama,     \* run_sim: the lowest Niyama value of every node while mushy
    sim_step,       \* run_sim: the loop counter
    clusters,       \* analyze_cast: the list returned by detect_hotspots
    gates           \* analyze_cast: the list returned by surface_candidates

inputVars == <<caller, mesh_data, material, initial_temp, ambient_temp>>
fieldVars == <<T, T_prev, liquid_frac, cooling_rate, grad_T, niyama>>
opVars == <<K, M, node_bc_area>>
loopVars == <<n_steps, dt_s, step, results, solved>>
outVars == <<events, stream, ret, final_result, response>>
simVars == <<sim_pc, sim_mesh, facets, alloy, bc, time_cfg, sim_T, t_solid, min_niyama, sim_step, clusters, gates>>
vars == <<inputVars, args, pc, error, constructed, fieldVars, opVars, loopVars, outVars, simVars>>

self_material == MATERIALS[material]

\* nothing constructed, nothing run
SolverFresh ==
    /\ args = NoArgs
    /\ error = "none"
    /\ constructed = FALSE
    /\ T = <<>> /\ T_prev = <<>> /\ liquid_frac = <<>>
    /\ cooling_rate = <<>> /\ grad_T = <<>> /\ niyama = <<>>
    /\ K = <<>> /\ M = <<>> /\ node_bc_area = <<>>
    /\ n_steps = 0 /\ dt_s = 0 /\ step = 0 /\ results = <<>> /\ solved = 0
    /\ events = <<>> /\ stream = <<>> /\ ret = "none" /\ final_result = <<>>
    /\ response = 0

\* run_sim is not called
SimIdle ==
    /\ sim_pc = "idle"
    /\ sim_mesh = SimMesh /\ facets = [boundary_nodes |-> <<>>]
    /\ alloy = [T_liq |-> 30, T_sol |-> 20, L |-> 0, k |-> 1, rho |-> 1, cp |-> 4]
    /\ bc = [T0 |-> 40, T_inf |-> 0, h |-> 2]
    /\ time_cfg = [dt |-> 1, t_end |-> 1]
    /\ sim_T = <<>> /\ t_solid = <<>> /\ min_niyama = <<>> /\ sim_step = 0
    /\ clusters = <<>> /\ gates = <<>>

Init ==
    /\ caller \in Callers
    /\ mesh_data \in Meshes
    /\ material \in MaterialNames
    /\ initial_temp \in InitialTemps
    /\ ambient_temp \in AmbientTemps
    /\ pc = "start"
    /\ SolverFresh
    /\ SimIdle

\* an exception leaves the solver: generate turns it into an error frame, run_simulation
\* into a 500 response, any other caller sees it propagate
Raise(kind) ==
    /\ pc' = "raised"
    /\ error' = kind
    /\ stream' = IF caller = "stream" THEN Append(stream, [type |-> "error", error |-> kind]) ELSE stream
    /\ response' = IF caller = "sync" THEN 500 ELSE response

\* an event that is computed but never handed to the consumer
Yield_withheld(ev) ==
    /\ events' = events
    /\ stream' = stream

\* solve yields an event; generate forwards it as a frame
Yield(ev) ==
    /\ events' = Append(events, ev)
    /\ stream' = IF caller = "stream" THEN Append(stream, ev) ELSE stream

\* the endpoints read the mesh before they construct the solver
HandlerBegin ==
    /\ pc = "start"
    /\ caller \in {"stream", "sync"}
    /\ IF mesh_data.none
       THEN Raise("TypeError") /\ UNCHANGED <<events, ret, final_result>>
       ELSE IF "nodes" \notin mesh_data.keys
                \/ (caller = "stream" /\ "surface_triangles" \notin mesh_data.keys)
       THEN Raise("KeyError") /\ UNCHANGED <<events, ret, final_result>>
       ELSE /\ pc' = "mesh_ready"
            /\ stream' = IF caller = "stream" THEN <<[type |-> "mesh"]>> ELSE stream
            /\ UNCHANGED <<error, events, ret, final_result, response>>
    /\ UNCHANGED <<simVars, inputVars, args, constructed, fieldVars, opVars, loopVars>>

\* ProfessionalSolidificationSolver.__init__
Construct ==
    /\ pc = IF caller = "direct" THEN "start" ELSE "mesh_ready"
    /\ LET e == ctor_error(mesh_data, material, initial_temp, ambient_temp)
           n == n_nodes_of(mesh_data)
       IN  IF e # "ok"
           THEN /\ Raise(e)
                /\ UNCHANGED <<constructed, fieldVars>>
           ELSE /\ pc' = "constructed"
                /\ constructed' = TRUE
                /\ T' = [i \in 0..(n - 1) |-> initial_temp]
                /\ T_prev' = [i \in 0..(n - 1) |-> initial_temp]
                /\ liquid_frac' = [i \in 0..(n - 1) |-> FracOne(self_material)]
                /\ cooling_rate' = [i \in 0..(n - 1) |-> 0]
                /\ grad_T' = [i \in 0..(n - 1) |-> 0]
                /\ niyama' = [i \in 0..(n - 1) |-> 0]
                /\ UNCHANGED <<error, stream, response>>
    /\ UNCHANGED <<simVars, inputVars, args, opVars, loopVars, events, ret, final_result>>

\* the call solver.solve(...): solve contains yield, so the call runs none of its body
\* and evaluates to a generator object
CallSolve ==
    /\ pc = "constructed"
    /\ \E a \in SolveArgs(caller) : args' = a
    /\ ret' = "generator"
    /\ pc' = IF caller = "sync" THEN "stored" ELSE "created"
    /\ UNCHANGED <<simVars, inputVars, error, constructed, fieldVars, opVars, loopVars,
                   events, stream, final_result, response>>

\* run_simulation keeps the value of the call as its results and serialises it
StoreResults ==
    /\ pc = "stored"
    /\ IF ret = "generator"
       THEN Raise("TypeError")
       ELSE pc' = "responded" /\ response' = 200 /\ UNCHANGED <<error, stream>>
    /\ UNCHANGED <<simVars, inputVars, args, constructed, fieldVars, opVars, loopVars,
                   events, ret, final_result>>

\* a loop test that admits one step too many
LoopTest_OneMore(s, n) == IF s <= n THEN "loop" ELSE "finalize"

\* where the while loop goes from its test: into the body or past the loop
LoopTest(s, n) == IF s < n THEN "loop" ELSE "finalize"

\* the first next() on the generator: assembly, time setup, and the init event when streaming
StartBody ==
    /\ pc = "created"
    /\ LET ops == assemble_matrices(mesh_data, self_material)
           d == IF args.run_until_solid THEN args.dt_seconds ELSE args.dt * 60
           total_s == IF args.run_until_solid THEN args.max_total_minutes * 60 ELSE args.total_time * 60
           n == total_s \div d
       IN  /\ K' = ops.K /\ M' = ops.M /\ node_bc_area' = ops.node_bc_area
           /\ dt_s' = d
           /\ n_steps' = n
           /\ step' = 0
           /\ results' = <<>>
           /\ IF args.streaming
              THEN /\ Yield([type |-> "init", total_steps |-> n \div args.save_interval,
                             material |-> self_material.name])
                   /\ pc' = "yield_init"
              ELSE /\ pc' = LoopTest(0, n)
                   /\ UNCHANGED <<events, stream>>
    /\ UNCHANGED <<simVars, inputVars, args, error, constructed, fieldVars, solved, ret, final_result, response>>

\* the caller asks for the event after init
ResumeInit ==
    /\ pc = "yield_init"
    /\ pc' = LoopTest(step, n_steps)
    /\ UNCHANGED <<simVars, inputVars, args, error, constructed, fieldVars, opVars, loopVars, outVars>>

\* the end of a loop iteration: phase update, the early stop test, the increment
LoopTail(Tvec) ==
    LET lf == update_phase(self_material, Tvec)
    IN  /\ liquid_frac' = lf
        /\ IF FullySolid(self_material, Tvec, lf)
           THEN pc' = "finalize" /\ step' = step
           ELSE pc' = LoopTest(step + 1, n_steps) /\ step' = step + 1

\* lines 154-172 of one iteration: the phase update, the solve, the derived fields and
\* the snapshot, from the state vectors at the loop test
iteration(mesh, m, Kmat, Mvec, area, d, Tamb, s, Tvec, Tp, grad) ==
    LET lf1 == update_phase(m, Tvec)
        T1 == solve_timestep(m, Kmat, Mvec, area, lf1, d, Tvec, Tamb)
        dT == [i \in DOMAIN T1 |-> FSub(T1[i], Tp[i])]
        g1 == compute_gradient(mesh, T1, grad)
        ny1 == compute_niyama(m, T1, g1, dT, d)
    IN  [T |-> T1, liquid_frac |-> lf1, cooling_rate |-> dT, grad_T |-> g1, niyama |-> ny1,
         state |-> save_state(m, s * d, T1, lf1, ny1)]

\* one iteration of the while loop, up to the timestep event when one is yielded
StepIteration ==
    /\ pc = "loop"
    /\ \E it \in {iteration(mesh_data, self_material, K, M, node_bc_area, dt_s, ambient_temp,
                            step, T, T_prev, grad_T)} :
        LET save == step % args.save_interval = 0 \/ step = n_steps - 1
            res1 == IF save THEN Append(results, it.state) ELSE results
        IN  /\ T' = it.T
            /\ T_prev' = it.T
            /\ cooling_rate' = it.cooling_rate
            /\ grad_T' = it.grad_T
            /\ niyama' = it.niyama
            /\ results' = res1
            /\ solved' = solved + 1
            /\ IF save /\ args.streaming
               THEN /\ Yield([type |-> "timestep", data |-> it.state, step |-> Len(res1),
                              progress |-> (step * 100) \div n_steps])
                    /\ liquid_frac' = it.liquid_frac
                    /\ pc' = "yield_step"
                    /\ step' = step
               ELSE /\ LoopTail(it.T)
                    /\ UNCHANGED <<events, stream>>
    /\ UNCHANGED <<simVars, inputVars, args, error, constructed, opVars, n_steps, dt_s, ret, final_result, response>>

\* the caller asks for the event after a timestep event
ResumeStep ==
    /\ pc = "yield_step"
    /\ LoopTail(T)
    /\ UNCHANGED <<simVars, inputVars, args, error, constructed, T, T_prev, cooling_rate, grad_T, niyama,
                   opVars, n_steps, dt_s, results, solved, outVars>>

\* after the loop: defect analysis and the final result, yielded as the complete event
\* or returned through StopIteration
Finalize ==
    /\ pc = "finalize"
    /\ IF "surface_triangles" \notin mesh_data.keys
       THEN Raise("KeyError") /\ UNCHANGED <<events, final_result>>
       ELSE LET fr == FinalResult(mesh_data, material, initial_temp, args.total_time, results, T, niyama)
            IN  /\ final_result' = <<fr>>
                /\ IF args.streaming
                   THEN Yield([type |-> "complete", data |-> fr]) /\ pc' = "yield_complete"
                   ELSE pc' = "returned" /\ UNCHANGED <<events, stream>>
                /\ UNCHANGED <<error, response>>
    /\ UNCHANGED <<simVars, inputVars, args, constructed, fieldVars, opVars, loopVars, ret>>

\* the generator keeps running after its complete event
ResumeComplete_Continues ==
    /\ pc = "yield_complete"
    /\ pc' = "yield_init"
    /\ step' = 0
    /\ UNCHANGED <<simVars, inputVars, args, error, constructed, fieldVars, opVars, n_steps, dt_s, results,
                   solved, outVars>>

\* the caller asks for the event after complete: the generator is exhausted
ResumeComplete ==
    /\ pc = "yield_complete"
    /\ pc' = "exhausted"
    /\ UNCHANGED <<simVars, inputVars, args, error, constructed, fieldVars, opVars, loopVars, outVars>>

Next ==
    \/ HandlerBegin
    \/ Construct
    \/ CallSolve
    \/ StoreResults
    \/ StartBody
    \/ ResumeInit
    \/ StepIteration
    \/ ResumeStep
    \/ Finalize
    \/ ResumeComplete

Spec == Init /\ [][Next]_vars

(***************************************************************************)
(* Properties                                                              *)
(***************************************************************************)
\* the frames of the run that reach the consumer of a streaming run: what generate sent
\* after its mesh frame, or the events themselves when solve is driven directly
RunFrames == IF caller = "stream" THEN SubSeq(stream, 2, Len(stream)) ELSE events
TerminalTypes == {"complete", "error"}
CountType(f, t) == Cardinality({i \in 1..Len(f) : f[i].type = t})

C2_CallGivesPayload == (ret # "none" /\ ~args.streaming) => ret = "payload"

\* C3 (as stated): once a step's solve has produced a non-finite temperature the run is
\* over in a failed state: the exception has left the solver, no complete event exists.
C3_FailsOnNonFiniteSolve ==
    (constructed /\ HasNaN(T)) =>
        /\ pc = "raised"
        /\ CountType(events, "complete") = 0

\* the constructor was entered (the endpoints can fail on the mesh before they reach it)
CtorEntered ==
    /\ pc \notin {"start", "mesh_ready"}
    /\ ~(pc = "raised" /\ ~constructed /\ error \in {"TypeError", "KeyError"})
NoSolverState ==
    /\ ~constructed
    /\ T = <<>> /\ T_prev = <<>> /\ liquid_frac = <<>>
    /\ cooling_rate = <<>> /\ grad_T = <<>> /\ niyama = <<>>
    /\ K = <<>> /\ M = <<>> /\ solved = 0 /\ ret = "none"
BadParameters ==
    \/ material \notin DOMAIN MATERIALS
    \/ (material \in DOMAIN MATERIALS /\ initial_temp < MATERIALS[material].solidus)
    \/ ambient_temp >= initial_temp
    \/ ambient_temp < 0
BadMesh ==
    \/ mesh_data.none
    \/ "nodes" \notin mesh_data.keys
    \/ "elements" \notin mesh_data.keys
    \/ Len(mesh_data.nodes) = 0
    \/ Len(mesh_data.elements) = 0
    \/ Len(mesh_data.nodes) < 4

\* C4: construction fails, with no solver state created and nothing assembled or solved,
\* when the alloy is unknown, initial < solidus, ambient >= initial or ambient < 0; with a
\* valid mesh it succeeds otherwise; a constructed solver has 0 <= ambient < initial and
\* initial >= solidus.
C4_ParameterValidation ==
    /\ (CtorEntered /\ BadParameters) =>
          pc = "raised" /\ error \in ParameterErrors /\ NoSolverState
    /\ (CtorEntered /\ ~BadParameters /\ ~BadMesh) => constructed
    /\ constructed =>
          /\ material \in DOMAIN MATERIALS
          /\ 0 <= ambient_temp /\ ambient_temp < initial_temp
          /\ initial_temp >= self_material.solidus

\* a negative ambient temperature, everything else valid, was rejected
C4_Witness ==
    /\ pc = "raised" /\ error = "ambient_negative"
    /\ mesh_data \in RunMeshes /\ ambient_temp < 0 /\ ~constructed

\* C5 (as stated): construction with an absent mesh, a mesh without nodes or elements, an
\* empty node or element list or fewer than 4 nodes fails with an invalid-mesh error, and
\* no state vector is created.
C5_MeshErrorAlways ==
    (CtorEntered /\ BadMesh) => pc = "raised" /\ error \in MeshErrors /\ NoSolverState

\* C5 (amended): construction with such a mesh always fails and creates no state vector;
\* the error is the invalid-mesh error when the alloy and the temperatures are valid, and
\* the parameter error, which is checked first, when they are not.
C5_MeshValidation ==
    (CtorEntered /\ BadMesh) =>
        /\ pc = "raised" /\ NoSolverState
        /\ ~BadParameters => error \in MeshErrors
        /\ BadParameters => error \in ParameterErrors

\* a mesh of exactly 3 nodes, valid parameters: rejected as too small
C5_Witness ==
    /\ pc = "raised" /\ error = "mesh_too_small"
    /\ Len(mesh_data.nodes) = 3 /\ ~BadParameters /\ ~constructed

InRange(x, lo, hi) == FGe(x, lo) /\ FLe(x, hi)

\* C6 (as stated): every nodal temperature, in the solver state and in every snapshot, is
\* between the ambient temperature and max(initial temperature, ambient temperature).
C6_TemperatureBounds ==
    constructed =>
        /\ \A i \in DOMAIN T : InRange(T[i], ambient_temp, Max(initial_temp, ambient_temp))
        /\ \A k \in 1..Len(results) : \A i \in DOMAIN results[k].temperature :
              InRange(results[k].temperature[i], ambient_temp, Max(initial_temp, ambient_temp))

\* C6 on the runs whose solves all returned finite values
C6_FiniteTemperatureBounds ==
    (constructed /\ ~HasNaN(T)) =>
        \A i \in DOMAIN T : InRange(T[i], ambient_temp, Max(initial_temp, ambient_temp))

\* C7 (as stated): every nodal liquid fraction is in [0, 1], and the lever rule is monotone
\* in the temperature, 0 at or below solidus and 1 at or above liquidus.
C7_LiquidFraction ==
    constructed =>
        /\ \A i \in DOMAIN liquid_frac : InRange(liquid_frac[i], 0, FracOne(self_material))
        /\ \A t1, t2 \in InitialTemps \cup AmbientTemps \cup {T[i] : i \in DOMAIN T} :
              (~IsNaN(t1) /\ ~IsNaN(t2) /\ t1 <= t2) =>
                  /\ LeverRule(self_material, t1) <= LeverRule(self_material, t2)
                  /\ t1 <= self_material.solidus => LeverRule(self_material, t1) = 0
                  /\ t2 >= self_material.liquidus => LeverRule(self_material, t2) = FracOne(self_material)

\* C7 without the range of the stored fractions: the lever rule alone
C7_LeverRuleOnly ==
    constructed =>
        \A t1, t2 \in InitialTemps \cup AmbientTemps \cup {T[i] : i \in DOMAIN T} :
            (~IsNaN(t1) /\ ~IsNaN(t2) /\ t1 <= t2) =>
                /\ LeverRule(self_material, t1) <= LeverRule(self_material, t2)
                /\ InRange(LeverRule(self_material, t1), 0, FracOne(self_material))

OutsideBand(Ti) == FLt(Ti, self_material.solidus) \/ FGt(Ti, self_material.liquidus)

\* C8: in every state of a run, a node whose current temperature is below solidus or above
\* liquidus has the Niyama value 0, whatever value it had while it was in the band.
C8_NiyamaZeroOutsideBand ==
    constructed => \A i \in DOMAIN T : OutsideBand(T[i]) => niyama[i] = 0

\* the Niyama vector of the step before the last one, recomputed from the last three
\* snapshots of a run that saves every step
PreviousNiyama ==
    LET n == Len(results)
        Tp == results[n - 1].temperature
        Tpp == results[n - 2].temperature
    IN  compute_niyama(self_material, Tp,
                       compute_gradient(mesh_data, Tp, [i \in DOMAIN Tp |-> 0]),
                       [i \in DOMAIN Tp |-> FSub(Tp[i], Tpp[i])], dt_s)

\* a node that had a positive Niyama value in the band one step ago is now below solidus
\* and has the value 0
C8_Witness ==
    /\ constructed /\ args.save_interval = 1 /\ Len(results) >= 3
    /\ results[Len(results)].temperature = T
    /\ \E i \in DOMAIN T :
          /\ FLt(T[i], self_material.solidus) /\ niyama[i] = 0
          /\ InBand(self_material, results[Len(results) - 1].temperature[i])
          /\ PreviousNiyama[i] > 0

\* the consumer of the generator keeps asking for the next event, as the for loop of
\* generate does, and a handler that has started runs on.  StartBody, StepIteration and
\* Finalize are enabled exactly at pc = "created", "loop" and "finalize"; their weak
\* fairness is written with that guard in place of ENABLED.
FairSpec ==
    /\ Init /\ [][Next]_vars
    /\ WF_vars(HandlerBegin \/ Construct \/ CallSolve \/ StoreResults \/ ResumeInit
               \/ ResumeStep \/ ResumeComplete)
    /\ ([]<>(pc # "created") \/ []<><<StartBody>>_vars)
    /\ ([]<>(pc # "loop") \/ []<><<StepIteration>>_vars)
    /\ ([]<>(pc # "finalize") \/ []<><<Finalize>>_vars)

BodyStarted == dt_s > 0
RunOver == pc \in {"exhausted", "returned", "raised"}
StepBudget == (args.max_total_minutes * 60) \div args.dt_seconds

\* C9: a run in run-until-solid mode terminates: it solves at most
\* floor(max_total_minutes * 60 / dt_seconds) steps whether or not the casting becomes
\* solid, every loop iteration that returns to the loop test with the run still going has
\* raised the step counter by one, and every started run reaches its end.
C9_RunUntilSolidTerminates ==
    /\ []((args.run_until_solid /\ BodyStarted) =>
            n_steps = StepBudget /\ solved <= StepBudget /\ step <= n_steps)
    /\ [][(args.run_until_solid /\ pc \in {"loop", "yield_step"} /\ pc' = "loop") =>
            step' = step + 1 /\ step' < n_steps]_vars
    /\ ((args.run_until_solid /\ BodyStarted) ~> RunOver)

\* a run that used its whole budget of several steps and ended with liquid metal left
C9_Witness ==
    /\ args.run_until_solid /\ RunOver /\ BodyStarted
    /\ StepBudget >= 2 /\ solved = StepBudget
    /\ \E i \in DOMAIN T : FGt(T[i], self_material.solidus)


(***************************************************************************)
(* run_sim: the explicit-loop simulation of the analysis pipeline          *)
(* Temperatures and times are integers in the units of the caller; an      *)
(* infinite time is the value Inf.                                         *)
(***************************************************************************)
\* the largest time step and the longest duration handed to run_sim
MaxDt == 3
MaxTEnd == 6
SimLatentHeats == {0, 20}
SimInitialTemps == {25, 40}
SimFilmCoefficients == {1, 2}
SimBoundaries == {<<>>, <<0>>, <<0, 1, 2, 3>>}

\* materials.fs: the solid fraction, as a numerator over max(Tliq - Tsol, 1e-9)
fs(Ti, Tsol, Tliq) == IF IsNaN(Ti) THEN NaN ELSE Clip(Tliq - Ti, 0, Tliq - Tsol)
FsOne(Tsol, Tliq) == Tliq - Tsol

\* materials.effective_cp
effective_cp(T_val, cp, L, Tsol, Tliq) ==
    IF FLt(Tsol, T_val) /\ FLt(T_val, Tliq) THEN cp - L \div Max(Tliq - Tsol, 1) ELSE cp

\* thermal_step._tetra_volume
tetra_volume(coords) ==
    Abs(Dot(VSub(coords[2], coords[1]),
            Cross(VSub(coords[3], coords[1]), VSub(coords[4], coords[1])))) \div 6

MeshCoords(mesh, elem) ==
    <<mesh.nodes[elem[1] + 1], mesh.nodes[elem[2] + 1], mesh.nodes[elem[3] + 1],
      mesh.nodes[elem[4] + 1]>>

\* the number of positions of the tuple s that hold x
Occurrences(s, x) == Cardinality({a \in 1..Len(s) : s[a] = x})

\* thermal_step.step_temperature: one implicit step; the system is multiplied by dt
step_temperature(mesh, boundary_nodes, Tn, params) ==
    LET n == Len(mesh.nodes)
        m == Len(mesh.elements)
        Ceff == [i \in 0..(n - 1) |->
                    effective_cp(Tn[i], params.cp, params.L, params.T_sol, params.T_liq)]
        share == ToSeq([e \in 1..m |-> tetra_volume(MeshCoords(mesh, mesh.elements[e])) \div 4], m)
        vol_per_node == ToSeq([r \in 1..n |->
            SumOver([e \in 1..m |-> Occurrences(mesh.elements[e], r - 1) * share[e]], m)], n)
        mii == ToSeq([r \in 1..n |-> params.rho * Ceff[r - 1] * vol_per_node[r]], n)
        \* the coupling of lines 42-50: -k for every ordered pair of positions of an
        \* element, +k on the diagonal of the first
        pairs(e, i, j) ==
            Cardinality({ab \in (1..4) \X (1..4) :
                ab[1] # ab[2] /\ mesh.elements[e][ab[1]] = i /\ mesh.elements[e][ab[2]] = j})
        firsts(e, i) ==
            Cardinality({ab \in (1..4) \X (1..4) : ab[1] # ab[2] /\ mesh.elements[e][ab[1]] = i})
        robin(i) == Occurrences(boundary_nodes, i) * params.h
        A == ToSeq([r \in 1..n |-> ToSeq([c \in 1..n |->
                 (IF r = c THEN mii[r] + robin(r - 1) * params.dt ELSE 0)
                 + params.dt * params.k
                   * SumOver([e \in 1..m |->
                        (IF r = c THEN firsts(e, r - 1) ELSE 0) - pairs(e, r - 1, c - 1)], m)], n)], n)
        b == ToSeq([r \in 1..n |->
                 IF IsNaN(Tn[r - 1]) THEN NaN
                 ELSE mii[r] * Tn[r - 1] + robin(r - 1) * params.T_inf * params.dt], n)
    IN  Vec(spsolve(A, b))

\* the value of G / (|cooling_rate| + 1e-9) where the cooling rate is zero and G is not
NiyamaHuge == 10000

\* the largest distance between two nodes of an element, in hundredths
ElemSize(mesh, elem) ==
    LET d2(a, b) == LET d == VSub(mesh.nodes[elem[a] + 1], mesh.nodes[elem[b] + 1]) IN Dot(d, d)
        far == CHOOSE x \in {d2(ab[1], ab[2]) : ab \in (1..4) \X (1..4)} :
                   \A ab \in (1..4) \X (1..4) : d2(ab[1], ab[2]) <= x
    IN  ISqrt(10000 * far)

\* simulate._estimate_gradient_magnitude: per element (max - min) / size, averaged onto
\* the nodes; in thousandths
estimate_gradient_magnitude(mesh, T_vec) ==
    LET n == Len(mesh.nodes)
        m == Len(mesh.elements)
        Te(e) == [a \in 1..4 |-> T_vec[mesh.elements[e][a]]]
        g == ToSeq([e \in 1..m |->
                IF \E a \in 1..4 : IsNaN(Te(e)[a]) THEN NaN
                ELSE LET hi == CHOOSE x \in {Te(e)[a] : a \in 1..4} : \A a \in 1..4 : Te(e)[a] <= x
                         lo == CHOOSE x \in {Te(e)[a] : a \in 1..4} : \A a \in 1..4 : Te(e)[a] >= x
                         size == ElemSize(mesh, mesh.elements[e])
                     IN  IF size = 0 THEN (IF hi = lo THEN 0 ELSE Inf)
                         ELSE ((hi - lo) * 100000) \div size], m)
        cnt(i) == SumOver([e \in 1..m |-> Occurrences(mesh.elements[e], i)], m)
        nan(i) == \E e \in 1..m : Occurrences(mesh.elements[e], i) > 0 /\ IsNaN(g[e])
        acc(i) == SumOver([e \in 1..m |->
                      IF Occurrences(mesh.elements[e], i) > 0
                      THEN Occurrences(mesh.elements[e], i) * g[e] ELSE 0], m)
    IN  Vec(ToSeq([r \in 1..n |->
            IF cnt(r - 1) > 0 THEN (IF nan(r - 1) THEN NaN ELSE acc(r - 1) \div cnt(r - 1))
            ELSE 0], n))

\* niyama = G / (|cooling_rate| + 1e-9) of one node, in tenths
SimNiyama(G_i, T_new_i, T_old_i, dt) ==
    IF IsNaN(G_i) \/ IsNaN(T_new_i) \/ IsNaN(T_old_i) THEN NaN
    ELSE IF T_new_i = T_old_i THEN (IF G_i = 0 THEN 0 ELSE NiyamaHuge)
    ELSE Min(NiyamaHuge, (G_i * dt) \div (100 * Abs(T_new_i - T_old_i)))

\* np.minimum(a, b): NaN propagates
Minimum(a, b) == IF IsNaN(a) \/ IsNaN(b) THEN NaN ELSE Min(a, b)

\* int(np.ceil(t_end / max(dt, 1e-9)))
sim_n_steps == (time_cfg.t_end + time_cfg.dt - 1) \div time_cfg.dt

SimParams ==
    [cp |-> alloy.cp, L |-> alloy.L, T_sol |-> alloy.T_sol, T_liq |-> alloy.T_liq,
     rho |-> alloy.rho, k |-> alloy.k, dt |-> time_cfg.dt, T_inf |-> bc.T_inf, h |-> bc.h]

\* the state of run_sim at its first loop test
SimInit ==
    /\ caller = "direct" /\ mesh_data = MeshNone /\ material = "aluminum"
    /\ initial_temp = 700 /\ ambient_temp = 25
    /\ pc = "idle"
    /\ SolverFresh
    /\ sim_pc = "loop"
    /\ sim_mesh = SimMesh
    /\ facets \in {[boundary_nodes |-> bn] : bn \in SimBoundaries}
    /\ alloy \in {[T_liq |-> 30, T_sol |-> 20, L |-> l, k |-> 1, rho |-> 1, cp |-> 4] :
                    l \in SimLatentHeats}
    /\ bc \in {[T0 |-> t0, T_inf |-> 0, h |-> hh] : t0 \in SimInitialTemps, hh \in SimFilmCoefficients}
    /\ time_cfg \in {[dt |-> d, t_end |-> te] : d \in 1..MaxDt, te \in (MaxTEnd - 2)..MaxTEnd}
    /\ sim_T = [i \in 0..(Len(SimMesh.nodes) - 1) |-> bc.T0]
    /\ t_solid = [i \in 0..(Len(SimMesh.nodes) - 1) |-> Inf]
    /\ min_niyama = [i \in 0..(Len(SimMesh.nodes) - 1) |-> Inf]
    /\ sim_step = 0
    /\ clusters = <<>> /\ gates = <<>>

solverVars == <<inputVars, args, pc, error, constructed, fieldVars, opVars, loopVars, outVars>>

\* one iteration of the loop of run_sim
RunSimStep ==
    /\ sim_pc = "loop"
    /\ sim_step < sim_n_steps
    /\ \E T_new \in {step_temperature(sim_mesh, facets.boundary_nodes, sim_T, SimParams)} :
        LET fsol == [i \in DOMAIN T_new |-> fs(T_new[i], alloy.T_sol, alloy.T_liq)]
            solid_mask == {i \in DOMAIN T_new :
                             FGe(fsol[i], FsOne(alloy.T_sol, alloy.T_liq)) /\ IsInf(t_solid[i])}
        IN  /\ t_solid' = [i \in DOMAIN t_solid |->
                              IF i \in solid_mask THEN (sim_step + 1) * time_cfg.dt ELSE t_solid[i]]
            /\ min_niyama' =
                  LET G == estimate_gradient_magnitude(sim_mesh, T_new)
                  IN  [i \in DOMAIN min_niyama |->
                          IF FLe(T_new[i], alloy.T_liq) /\ FGe(T_new[i], alloy.T_sol)
                          THEN Minimum(min_niyama[i], SimNiyama(G[i], T_new[i], sim_T[i], time_cfg.dt))
                          ELSE min_niyama[i]]
            /\ sim_T' = T_new
    /\ sim_step' = sim_step + 1
    /\ UNCHANGED <<solverVars, sim_pc, sim_mesh, facets, alloy, bc, time_cfg, clusters, gates>>

\* after the loop: the infinite times are replaced and the result is returned
RunSimReturn ==
    /\ sim_pc = "loop"
    /\ sim_step >= sim_n_steps
    /\ t_solid' = [i \in DOMAIN t_solid |-> IF IsInf(t_solid[i]) THEN time_cfg.t_end ELSE t_solid[i]]
    /\ min_niyama' =
          LET finite == {i \in DOMAIN min_niyama : ~IsInf(min_niyama[i])}
              top == IF finite = {} THEN 0
                     ELSE IF \E i \in finite : IsNaN(min_niyama[i]) THEN NaN
                     ELSE CHOOSE x \in {min_niyama[i] : i \in finite} :
                              \A i \in finite : min_niyama[i] <= x
          IN  [i \in DOMAIN min_niyama |-> IF IsInf(min_niyama[i]) THEN top ELSE min_niyama[i]]
    /\ sim_pc' = "returned"
    /\ UNCHANGED <<solverVars, sim_mesh, facets, alloy, bc, time_cfg, sim_T, sim_step, clusters, gates>>

(***************************************************************************)
(* detect_hotspots.  A score is kept as its numerator over the common      *)
(* denominator 100 * ptp(t_solid) * ptp(niyama), which makes the quantile  *)
(* and the comparison with it exact.                                       *)
(***************************************************************************)
\* max(np.ptp(v), 1e-9), as the divisor of the normalisation: a flat field is
\* normalised to zero whatever the divisor
PtpOrOne(v) == IF VecMax(v) = VecMin(v) THEN 1 ELSE VecMax(v) - VecMin(v)

\* score = alpha * ts + (1 - alpha) * (1 - N) with alpha = 0.85
Score(ts_vec, ny_vec, i) ==
    85 * (ts_vec[i] - VecMin(ts_vec)) * PtpOrOne(ny_vec)
    + 15 * (PtpOrOne(ny_vec) - (ny_vec[i] - VecMin(ny_vec))) * PtpOrOne(ts_vec)

\* the k-th smallest score, k from 0
KthScore(score, k) ==
    CHOOSE v \in {score[i] : i \in DOMAIN score} :
        /\ Cardinality({i \in DOMAIN score : score[i] < v}) <= k
        /\ Cardinality({i \in DOMAIN score : score[i] <= v}) > k

\* twenty times np.quantile(score, 0.85): linear interpolation at 0.85 * (n - 1)
Quantile85x20(score) ==
    LET n == Cardinality(DOMAIN score)
        j == (17 * (n - 1)) \div 20
        r == (17 * (n - 1)) % 20
    IN  IF r = 0 THEN 20 * KthScore(score, j)
        ELSE 20 * KthScore(score, j) + r * (KthScore(score, j + 1) - KthScore(score, j))

\* a search that stops at its start node
IndexRun_start_only(mask, idx, n) == [u \in 1..1 |-> idx]

\* the component the search started at idx collects: it only ever looks at u - 1
\* and u + 1, so it is the run of flagged indices from idx upwards
IndexRun(mask, idx, n) ==
    LET last == CHOOSE b \in idx..(n - 1) :
                    /\ \A u \in idx..b : u \in mask
                    /\ (b + 1) \notin mask
    IN  [u \in 1..(last - idx + 1) |-> idx + u - 1]

detect_hotspots(ts_vec, ny_vec) ==
    IF HasNaN(ts_vec) \/ HasNaN(ny_vec) THEN <<>>
    ELSE
    LET n == Cardinality(DOMAIN ts_vec)
        score == [i \in DOMAIN ts_vec |-> Score(ts_vec, ny_vec, i)]
        thr == Quantile85x20(score)
        mask == {i \in DOMAIN score : 20 * score[i] >= thr}
        starts == SortedSeq({i \in mask : (i - 1) \notin mask})
        created == [c \in 1..Len(starts) |->
            LET comp == ToSeq(IndexRun(mask, starts[c], n),
                              Len(IndexRun(mask, starts[c], n)))
            IN  [id |-> c - 1,
                 indices |-> comp,
                 centroid_index |-> SumOver(comp, Len(comp)) \div Len(comp),
                 severity |-> (SumOver([k \in 1..Len(comp) |-> score[comp[k]]], Len(comp)) * 1000)
                              \div Len(comp)]]
    IN  SortBySeverity(ToSeq(created, Len(starts)))

\* analyze_cast after run_sim: the clusters of the returned fields
DetectHotspots ==
    /\ sim_pc = "returned"
    /\ clusters' = detect_hotspots(t_solid, min_niyama)
    /\ sim_pc' = "clustered"
    /\ UNCHANGED <<solverVars, sim_mesh, facets, alloy, bc, time_cfg, sim_T, t_solid, min_niyama,
                   sim_step, gates>>

(***************************************************************************)
(* surface_candidates.  A unit normal is kept in thousandths.              *)
(***************************************************************************)
\* the number of iterations of the march
MarchSteps == 10

\* v / |v| in thousandths; the zero vector where the norm is zero, which is what
\* `n / (norm or 1.0)` and the mask `vn_norm > 0` both leave
Normalized(v, scale) ==
    LET norm == ISqrt(Dot(v, v))
    IN  IF norm = 0 THEN <<0, 0, 0>>
        ELSE <<RoundDiv(v[1] * scale, norm), RoundDiv(v[2] * scale, norm),
               RoundDiv(v[3] * scale, norm)>>

\* the unit normal of a surface triangle
tri_normal(mesh, tri) ==
    LET p0 == mesh.nodes[tri[1] + 1]
        p1 == mesh.nodes[tri[2] + 1]
        p2 == mesh.nodes[tri[3] + 1]
        c == Cross(VSub(p1, p0), VSub(p2, p0))
    IN  Normalized(VScale(100, c), 1000)

\* the sum of the normals of the triangles at node i, once per appearance
NormalSum(mesh, i) ==
    LET tris == mesh.surface_triangles
        part(t) == VScale(Occurrences(tris[t], i), tri_normal(mesh, tris[t]))
        comp(c) == SumOver([t \in 1..Len(tris) |-> part(t)[c]], Len(tris))
    IN  <<comp(1), comp(2), comp(3)>>

\* vertex_normal[i]: normalised where the sum has a length, zero elsewhere
vertex_normal(mesh, i) == Normalized(NormalSum(mesh, i), 1000)

\* np.argmax(t_solid[indices]): the first member with the largest value
ArgMaxMember(ts_vec, indices) ==
    indices[CHOOSE k \in 1..Len(indices) :
               /\ \A j \in 1..Len(indices) : ts_vec[indices[j]] <= ts_vec[indices[k]]
               /\ \A j \in 1..(k - 1) : ts_vec[indices[j]] < ts_vec[indices[k]]]

\* the nodes `cand` holds before the loop and after each of its iterations, up to the
\* break: the next node is always index + 1, held at the last index
RECURSIVE march(_, _, _, _)
march(ts_vec, n, path, left) ==
    LET cand == path[Len(path)]
        next_idx == Min(Max(cand + 1, 0), n - 1)
    IN  IF left = 0 THEN path
        ELSE IF ts_vec[next_idx] >= ts_vec[cand]
        THEN march(ts_vec, n, Append(path, next_idx), left - 1)
        ELSE path

\* the march of the gate of one cluster
GateMarch(ts_vec, cl) ==
    march(ts_vec, Cardinality(DOMAIN ts_vec), <<ArgMaxMember(ts_vec, cl.indices)>>, MarchSteps)

\* max(min_thickness * 1.2, 5.0), in tenths of a millimetre
pad_diam(min_thickness) == Max((min_thickness * 12) \div 10, 50)

surface_candidates(mesh, ts_vec, cls, min_thickness) ==
    ToSeq([c \in 1..Len(cls) |->
              LET path == GateMarch(ts_vec, cls[c])
                  cand == path[Len(path)]
              IN  [point |-> mesh.nodes[cand + 1],
                   normal |-> vertex_normal(mesh, cand),
                   pad_diam |-> pad_diam(min_thickness),
                   feeds_cluster_id |-> cls[c].id]], Len(cls))

\* bc_json.get('min_gate_diam', 8.0), in tenths of a millimetre
min_gate_diam == IF "min_gate_diam" \in DOMAIN bc THEN bc.min_gate_diam ELSE 80

\* analyze_cast after detect_hotspots: one gate per cluster
SurfaceCandidates ==
    /\ sim_pc = "clustered"
    /\ gates' = surface_candidates(sim_mesh, t_solid, clusters, min_gate_diam)
    /\ sim_pc' = "gated"
    /\ UNCHANGED <<solverVars, sim_mesh, facets, alloy, bc, time_cfg, sim_T, t_solid, min_niyama,
                   sim_step, clusters>>

\* analyze_cast after surface_candidates: the JSON export.  The members of a cluster are
\* numpy integers, which json.dump refuses
WriteOutputs ==
    /\ sim_pc = "gated"
    /\ sim_pc' = IF \E c \in 1..Len(clusters) : Len(clusters[c].indices) > 0
                 THEN "export_failed" ELSE "exported"
    /\ UNCHANGED <<solverVars, sim_mesh, facets, alloy, bc, time_cfg, sim_T, t_solid, min_niyama,
                   sim_step, clusters, gates>>

SimNext == RunSimStep \/ RunSimReturn \/ DetectHotspots \/ SurfaceCandidates \/ WriteOutputs

SimSpec == SimInit /\ [][SimNext]_vars

\* C10 (as stated): in the result of run_sim every t_solid[i] is finite and at most t_end.
C10_SolidTimeWithinDuration ==
    sim_pc = "returned" => \A i \in DOMAIN t_solid : ~IsInf(t_solid[i]) /\ t_solid[i] <= time_cfg.t_end

\* the elements of a finite set of integers in increasing order
PrincipalSubmatrix(A, S) ==
    LET idx == SortedSeq(S)
        k == Len(idx)
    IN  ToSeq([r \in 1..k |-> ToSeq([c \in 1..k |-> A[idx[r]][idx[c]]], k)], k)

\* positive semi-definite, for a symmetric matrix: every principal minor is >= 0
IsPSD(A) == \A S \in (SUBSET DOMAIN A) \ {{}} : Det(PrincipalSubmatrix(A, S)) >= 0

\* C12: for every mesh the constructor accepts, the assembled K is symmetric and positive
\* semi-definite, and the lumped capacity, which is assembled on the diagonal only, has
\* no negative entry.
C12_AssembledOperators ==
    BodyStarted =>
        /\ DOMAIN K = DOMAIN T /\ DOMAIN M = DOMAIN T
        /\ \A i, j \in DOMAIN K : K[i][j] = K[j][i]
        /\ IsPSD(K)
        /\ \A i \in DOMAIN M : M[i] >= 0

\* operators assembled for a mesh that couples its nodes and also holds a node without
\* capacity
C12_Witness ==
    /\ BodyStarted
    /\ \E i, j \in DOMAIN K : i # j /\ K[i][j] < 0 /\ M[i] > 0
    /\ \E i \in DOMAIN M : M[i] = 0

(***************************************************************************)
(* Stored energy over the steps                                            *)
(***************************************************************************)
\* the stored thermal energy of a temperature vector: the lumped capacities times
\* the excess over ambient, NaN as soon as one temperature is
StoredEnergy(Mvec, Tvec, Tamb) ==
    IF HasNaN(Tvec) THEN NaN
    ELSE LET n == Cardinality(DOMAIN Tvec)
         IN  SumOver([k \in 1..n |-> Mvec[k - 1] * (Tvec[k - 1] - Tamb)], n)

\* a transition that solves one step of the loop
StepSolved == pc = "loop" /\ solved' = solved + 1

\* C13: with constant ambient and the convective boundary, the total stored thermal
\* energy, the sum over the nodes of capacity[i] * (T[i] - ambient), never increases
\* from one step of the run to the next
C13_EnergyNeverIncreases ==
    [][StepSolved => ~FGt(StoredEnergy(M, T', ambient_temp), StoredEnergy(M, T, ambient_temp))]_vars

\* a step has taken energy out of the casting, through a boundary that cools
C13_Witness ==
    /\ pc \in {"loop", "yield_step", "finalize"}
    /\ solved >= 2
    /\ ~HasNaN(T)
    /\ FLt(0, StoredEnergy(M, T, ambient_temp))
    /\ FLt(StoredEnergy(M, T, ambient_temp),
           StoredEnergy(M, [i \in DOMAIN T |-> initial_temp], ambient_temp))

(***************************************************************************)
(* The early stop                                                          *)
(***************************************************************************)
\* every node at or below solidus, and no liquid fraction left
AllNodesSolid ==
    /\ \A i \in DOMAIN T : FLe(T[i], self_material.solidus)
    /\ \A i \in DOMAIN liquid_frac : FLe(liquid_frac[i], 0)

\* C14: the run stops early exactly when, after a step, every node is at or below
\* solidus with no liquid fraction: the loop is never re-entered after a step that left
\* the casting fully solid, and the loop is never left with steps remaining in its
\* budget unless the casting is fully solid
C14_EarlyStop ==
    /\ (pc = "loop" /\ solved > 0) => ~AllNodesSolid
    /\ (pc = "finalize" /\ step < n_steps) => (solved > 0 /\ AllNodesSolid)
    /\ (pc = "finalize" /\ \E i \in DOMAIN T : FGt(T[i], self_material.solidus)) => step >= n_steps

\* the loop was left after a step with more than one step still in the budget
C14_Witness ==
    /\ pc = "finalize"
    /\ solved > 0
    /\ step + 1 < n_steps
    /\ AllNodesSolid

(***************************************************************************)
(* The effective heat capacity of the two phase models                     *)
(***************************************************************************)
\* the capacity step_temperature gives node i in the current state of run_sim
SimCeff(i) == effective_cp(sim_T[i], alloy.cp, alloy.L, alloy.T_sol, alloy.T_liq)

\* C15: in both phase models the effective capacity of a node strictly inside the
\* mushy band is the base specific heat plus latentHeat / (liquidus - solidus), and the
\* base specific heat otherwise; hence it is at least the base specific heat and
\* strictly positive
C15_CapacityPlusLatentTerm ==
    /\ \A i \in DOMAIN liquid_frac :
          /\ C_eff(self_material, liquid_frac[i]) =
                IF FGt(liquid_frac[i], 0) /\ FLt(liquid_frac[i], FracOne(self_material))
                THEN cp_avg(self_material)
                     + self_material.latent_heat \div (self_material.liquidus - self_material.solidus)
                ELSE cp_avg(self_material)
          /\ C_eff(self_material, liquid_frac[i]) >= cp_avg(self_material)
    /\ \A i \in DOMAIN sim_T :
          /\ SimCeff(i) = IF FLt(alloy.T_sol, sim_T[i]) /\ FLt(sim_T[i], alloy.T_liq)
                          THEN alloy.cp + alloy.L \div (alloy.T_liq - alloy.T_sol)
                          ELSE alloy.cp
          /\ SimCeff(i) >= alloy.cp
          /\ SimCeff(i) > 0

(***************************************************************************)
(* Elements of no volume                                                   *)
(***************************************************************************)
\* the element has no strictly positive volume
Degenerate(mesh, elem) == tet_shape_grads_and_volume(ElemCoords(mesh, elem)).vol6 <= 0
HasDegenerate(mesh) ==
    /\ ~mesh.none
    /\ "nodes" \in mesh.keys /\ "elements" \in mesh.keys
    /\ Len(mesh.nodes) >= 4
    /\ \E e \in 1..Len(mesh.elements) : Degenerate(mesh, mesh.elements[e])

\* the same mesh with its elements of no volume taken out
WithoutDegenerate(mesh) ==
    [mesh EXCEPT !.elements = SelectSeq(mesh.elements, LAMBDA el : ~Degenerate(mesh, el))]

\* C16: a tetrahedron whose volume is not strictly positive is skipped: the conductance
\* matrix, the capacity diagonal and the nodal gradients are those of the mesh without
\* it, and its presence raises no error at construction, assembly or stepping
C16_DegenerateSkipped ==
    HasDegenerate(mesh_data) =>
        /\ error \notin MeshErrors
        /\ (constructed /\ caller # "sync") => error = "none"
        /\ BodyStarted =>
              /\ K = AssembleK(WithoutDegenerate(mesh_data), self_material)
              /\ M = AssembleM(WithoutDegenerate(mesh_data), self_material)
        /\ solved > 0 =>
              grad_T = compute_gradient(WithoutDegenerate(mesh_data), T,
                                        [i \in DOMAIN T |-> 0])

\* a mesh with a sound and a flat tetrahedron has been assembled and stepped twice:
\* the node that only the flat one touches has no capacity and no conductance
C16_Witness ==
    /\ HasDegenerate(mesh_data)
    /\ Len(WithoutDegenerate(mesh_data).elements) > 0
    /\ solved >= 2
    /\ pc # "raised"
    /\ \E i \in DOMAIN M : M[i] = 0 /\ \A j \in DOMAIN K : K[i][j] = 0
    /\ \E i \in DOMAIN M : M[i] > 0 /\ grad_T[i] > 0

(***************************************************************************)
(* The defect report on castings of many nodes                             *)
(* _analyze_defects reads the terminal fields only; they are drawn here    *)
(* for chains of up to MaxDefectNodes nodes, at the end of the loop of a   *)
(* one-step run.                                                           *)
(***************************************************************************)
MaxDefectNodes == 52
DefectSizes == {4, HotspotCap + 1, HotspotCap + 2, MaxDefectNodes}
DefectLayouts == {"near", "far", "widening"}
DefectPatterns == {"hot_rising", "hot_falling", "mushy_low", "mushy_cycle", "mixed", "solid"}

\* the chain of nodes: 10 mm apart, 40 mm apart, or with gaps that grow along the chain;
\* nodes 2 and 3 are off the axis so that the first four span a tetrahedron
DefectNodeX(layout, i) ==
    CASE layout = "near" -> 10 * i
      [] layout = "far" -> 40 * i
      [] layout = "widening" -> 31 * i + (i * (i - 1)) \div 2
DefectMesh(n, layout) ==
    LET g == IF layout = "near" THEN 10 ELSE 40
    IN  MeshDict(AllKeys,
                 ToSeq([k \in 1..n |-> <<DefectNodeX(layout, k - 1),
                                         IF k = 3 THEN g ELSE 0,
                                         IF k = 4 THEN g ELSE 0>>], n),
                 OneTet, TetFaces)

\* the terminal temperature and Niyama value of node i; a node has a Niyama value
\* only inside the mushy band
DefectT(p, mat, n, i) ==
    CASE p = "hot_rising" -> mat.liquidus + 1 + i
      [] p = "hot_falling" -> mat.liquidus + n - i
      [] p = "mushy_low" -> mat.liquidus - 1
      [] p = "mushy_cycle" -> mat.solidus + 1
      [] p = "mixed" -> (IF i % 3 = 0 THEN mat.liquidus + 1 + (i % 7)
                         ELSE IF i % 3 = 1 THEN mat.liquidus - 1 ELSE mat.solidus - 10)
      [] p = "solid" -> mat.solidus - 10
DefectNiyama(p, mat, i) ==
    CASE p = "mushy_low" -> 1 + (i % (mat.niyama_critical - 1))
      [] p = "mushy_cycle" -> i % (mat.niyama_critical + 2)
      [] p = "mixed" -> (IF i % 3 = 1 THEN 1 + ((i * 5) % (mat.niyama_critical - 1)) ELSE 0)
      [] OTHER -> 0

DefectInit ==
    /\ caller = "direct"
    /\ \E n \in DefectSizes, layout \in DefectLayouts : mesh_data = DefectMesh(n, layout)
    /\ material \in {"aluminum", "steel"}
    /\ initial_temp = self_material.liquidus + 85
    /\ ambient_temp = 25
    /\ args = NoArgs
    /\ pc = "finalize"
    /\ error = "none"
    /\ constructed = TRUE
    /\ \E p \in DefectPatterns :
          /\ T = [i \in 0..(n_nodes_of(mesh_data) - 1) |->
                     DefectT(p, self_material, n_nodes_of(mesh_data), i)]
          /\ niyama = [i \in 0..(n_nodes_of(mesh_data) - 1) |-> DefectNiyama(p, self_material, i)]
    /\ T_prev = T
    /\ liquid_frac = update_phase(self_material, T)
    /\ cooling_rate = [i \in DOMAIN T |-> T[i] - initial_temp]
    /\ grad_T = [i \in DOMAIN T |-> 0]
    /\ K = AssembleK(mesh_data, self_material)
    /\ M = AssembleM(mesh_data, self_material)
    /\ node_bc_area = AssembleBcArea(mesh_data)
    /\ n_steps = 1 /\ dt_s = 60 /\ step = 1 /\ solved = 1
    /\ results = <<save_state(self_material, 0, T, liquid_frac, niyama)>>
    /\ events = <<>> /\ stream = <<>> /\ ret = "generator" /\ final_result = <<>>
    /\ response = 0
    /\ SimIdle

DefectNext == Finalize

DefectSpec == DefectInit /\ [][DefectNext]_vars

\* the defect report of the final result
Report == final_result[1].defect_analysis
NodeIdsOf(records) == {records[k].node_id : k \in 1..Len(records)}
HotNodes == {i \in DOMAIN T : FGt(T[i], self_material.liquidus)}
PorousNodes == {i \in DOMAIN niyama : FGt(niyama[i], 0) /\ FLt(niyama[i], self_material.niyama_critical)}
IsolatedHotNodes ==
    {i \in HotNodes : HotNodes \ {i} # {}
                      /\ MinDist2(mesh_data, i, HotNodes \ {i}) > IsolationMm * IsolationMm}

\* C17: the hotspot list of the defect report is exactly the set of nodes whose terminal
\* temperature is above liquidus, each with its node id, location, temperature and
\* severity, for any number of such nodes
C17_HotspotsExactlyAboveLiquidus ==
    final_result # <<>> =>
        /\ NodeIdsOf(Report.hotspots) = HotNodes
        /\ \A k \in 1..Len(Report.hotspots) :
              LET r == Report.hotspots[k]
              IN  /\ r.location = mesh_data.nodes[r.node_id + 1]
                  /\ r.temperature = T[r.node_id]
                  /\ r.severity = Quot((T[r.node_id] - self_material.liquidus) * 1000,
                                       initial_temp - self_material.liquidus)

\* C18: the porosity list holds only nodes with 0 < Niyama < critical, is ordered by
\* severity non-increasing, has at most 50 entries, and when more nodes qualify no
\* omitted qualifying node is more severe (has a lower Niyama value) than a listed one
C18_PorosityTopFifty ==
    final_result # <<>> =>
        LET z == Report.porosity_zones
        IN  /\ NodeIdsOf(z) \subseteq PorousNodes
            /\ Cardinality(NodeIdsOf(z)) = Len(z)
            /\ \A k \in 1..Len(z) : z[k].niyama_value = niyama[z[k].node_id]
            /\ \A k \in 1..(Len(z) - 1) : z[k].severity >= z[k + 1].severity
            /\ Len(z) <= 50
            /\ Len(z) = IF Cardinality(PorousNodes) > 50 THEN 50 ELSE Cardinality(PorousNodes)
            /\ \A i \in PorousNodes \ NodeIdsOf(z) :
                  \A k \in 1..Len(z) : niyama[i] >= z[k].niyama_value

\* more than fifty nodes qualified, of unequal severities, and fifty were reported
C18_Witness ==
    /\ final_result # <<>>
    /\ Cardinality(PorousNodes) > 50
    /\ Len(Report.porosity_zones) = 50
    /\ Report.porosity_zones[1].severity > Report.porosity_zones[50].severity
    /\ \E i \in PorousNodes \ NodeIdsOf(Report.porosity_zones) :
          niyama[i] > Report.porosity_zones[1].niyama_value

\* C19: the feeding-issue list holds only hotspot nodes whose nearest other hotspot is
\* more than 30 mm away, with severity distance / 30, has at most 20 entries, and when
\* more nodes qualify no omitted qualifying node is more severe (more isolated) than a
\* listed one
C19_FeedingTopTwenty ==
    final_result # <<>> =>
        LET f == Report.feeding_issues
        IN  /\ NodeIdsOf(f) \subseteq IsolatedHotNodes
            /\ \A k \in 1..Len(f) :
                  /\ f[k].isolation_distance =
                        ISqrt(10000 * MinDist2(mesh_data, f[k].node_id, HotNodes \ {f[k].node_id}))
                  /\ f[k].severity = (f[k].isolation_distance * 10) \div 30
            /\ Len(f) <= 20
            /\ \A i \in IsolatedHotNodes \ NodeIdsOf(f) :
                  \A k \in 1..Len(f) :
                      MinDist2(mesh_data, i, HotNodes \ {i})
                          <= MinDist2(mesh_data, f[k].node_id, HotNodes \ {f[k].node_id})

(***************************************************************************)
(* Clustering on fields of two-tetrahedron meshes                          *)
(* detect_hotspots reads the two fields only; they are drawn here for      *)
(* eight nodes, as run_sim returns them.                                   *)
(***************************************************************************)
\* the largest number of late-freezing nodes
MaxHot == 3

TwoTetNodes ==
    <<(<<0, 0, 0>>), (<<2, 0, 0>>), (<<0, 3, 0>>), (<<0, 0, 4>>),
      (<<10, 0, 0>>), (<<12, 0, 0>>), (<<10, 3, 0>>), (<<10, 0, 4>>)>>
FacesOf(e) == <<(<<e[1], e[2], e[3]>>), (<<e[1], e[2], e[4]>>), (<<e[1], e[3], e[4]>>),
                (<<e[2], e[3], e[4]>>)>>
\* two tetrahedra that share no node: numbered block by block, or alternately
PipeMeshBlocks ==
    [nodes |-> TwoTetNodes, elements |-> <<(<<0, 1, 2, 3>>), (<<4, 5, 6, 7>>)>>,
     surface_triangles |-> FacesOf(<<0, 1, 2, 3>>) \o FacesOf(<<4, 5, 6, 7>>)]
PipeMeshAlternate ==
    [nodes |-> TwoTetNodes, elements |-> <<(<<0, 2, 4, 6>>), (<<1, 3, 5, 7>>)>>,
     surface_triangles |-> FacesOf(<<0, 2, 4, 6>>) \o FacesOf(<<1, 3, 5, 7>>)]
\* the block mesh with the surface of its first tetrahedron only
PipeMeshHalfSurface ==
    [nodes |-> TwoTetNodes, elements |-> <<(<<0, 1, 2, 3>>), (<<4, 5, 6, 7>>)>>,
     surface_triangles |-> FacesOf(<<0, 1, 2, 3>>)]
PipeMeshes == {PipeMeshBlocks, PipeMeshAlternate, PipeMeshHalfSurface}

\* the fields: the nodes of late freeze at t_end or one time step before it, the
\* others early; the Niyama minimum flat or graded along the indices
PipeFields ==
    {[late |-> H, last |-> G, graded |-> g] :
        H \in {X \in SUBSET (0..7) : Cardinality(X) \in 2..MaxHot}, G \in SUBSET (0..7),
        g \in BOOLEAN}

PipeInit ==
    /\ caller = "direct" /\ mesh_data = MeshNone /\ material = "aluminum"
    /\ initial_temp = 700 /\ ambient_temp = 25
    /\ pc = "idle"
    /\ SolverFresh
    /\ sim_pc = "returned"
    /\ sim_mesh \in PipeMeshes
    /\ facets = [boundary_nodes |-> <<0, 1, 2, 3>>]
    /\ alloy = [T_liq |-> 30, T_sol |-> 20, L |-> 0, k |-> 1, rho |-> 1, cp |-> 4]
    /\ bc = [T0 |-> 40, T_inf |-> 0, h |-> 2]
    /\ time_cfg = [dt |-> 1, t_end |-> 6]
    /\ \E f \in PipeFields :
          /\ f.last \subseteq f.late
          /\ t_solid = [i \in 0..7 |-> IF i \in f.last THEN 6 ELSE IF i \in f.late THEN 5 ELSE 2]
          /\ min_niyama = [i \in 0..7 |-> IF f.graded THEN 1 + (i % 3) ELSE 0]
    /\ sim_T = [i \in 0..7 |-> IF t_solid[i] = 6 THEN 20 ELSE 19]
    /\ sim_step = 6
    /\ clusters = <<>> /\ gates = <<>>

PipeNext == DetectHotspots \/ SurfaceCandidates \/ WriteOutputs

PipeSpec == PipeInit /\ [][PipeNext]_vars

\* the flagged nodes: the members of the returned clusters
Flagged == UNION {{clusters[c].indices[k] : k \in 1..Len(clusters[c].indices)} : c \in 1..Len(clusters)}

\* two nodes co-occur in a tetrahedron or in a surface triangle
TopoAdjacent(mesh, u, v) ==
    \/ \E e \in 1..Len(mesh.elements) :
          (\E a \in 1..4 : mesh.elements[e][a] = u) /\ (\E a \in 1..4 : mesh.elements[e][a] = v)
    \/ \E t \in 1..Len(mesh.surface_triangles) :
          /\ \E a \in 1..3 : mesh.surface_triangles[t][a] = u
          /\ \E a \in 1..3 : mesh.surface_triangles[t][a] = v

\* the flagged nodes joined to those of C by a path of flagged nodes
RECURSIVE TopoComponent(_, _, _)
TopoComponent(mesh, F, C) ==
    LET more == C \cup {v \in F : \E u \in C : TopoAdjacent(mesh, u, v)}
    IN  IF more = C THEN C ELSE TopoComponent(mesh, F, more)

SameCluster(u, v) ==
    \E c \in 1..Len(clusters) :
        /\ \E k \in 1..Len(clusters[c].indices) : clusters[c].indices[k] = u
        /\ \E k \in 1..Len(clusters[c].indices) : clusters[c].indices[k] = v

\* C11: two flagged nodes are in the same cluster if and only if a path of flagged
\* nodes joins them in which consecutive nodes co-occur in a tetrahedron or surface
\* triangle; two flagged groups that share no element come back as two clusters
\* whatever the numbering of the nodes
C11_ClustersFollowTopology ==
    sim_pc \in {"clustered", "gated", "export_failed", "exported"} =>
        \A u, v \in Flagged : SameCluster(u, v) <=> v \in TopoComponent(sim_mesh, Flagged, {u})

\* C20: the clusters come back ordered by mean score non-increasing, the cluster at
\* position k has id k, and the ids are unique
C20_IdIsRank ==
    sim_pc \in {"clustered", "gated", "export_failed", "exported"} =>
        /\ \A k \in 1..(Len(clusters) - 1) : clusters[k].severity >= clusters[k + 1].severity
        /\ \A k \in 1..Len(clusters) : clusters[k].id = k - 1
        /\ \A j, k \in 1..Len(clusters) : clusters[j].id = clusters[k].id => j = k

(***************************************************************************)
(* Gate candidates                                                         *)
(***************************************************************************)
GatesReturned == sim_pc \in {"gated", "export_failed", "exported"}

\* the node the gate of cluster c is placed at
GateNode(c) == LET path == GateMarch(t_solid, clusters[c]) IN path[Len(path)]

HasIncidentTriangle(mesh, i) ==
    \E t \in 1..Len(mesh.surface_triangles) :
        \E a \in 1..3 : mesh.surface_triangles[t][a] = i

\* C21: the normal of every gate candidate is the normalised sum of the face normals of
\* the surface triangles at the gate node when there is one, the upward vector (0,0,1)
\* when there is none, and never the zero vector
C21_GateNormal ==
    GatesReturned =>
        \A c \in 1..Len(gates) :
            /\ HasIncidentTriangle(sim_mesh, GateNode(c)) =>
                  gates[c].normal = Normalized(NormalSum(sim_mesh, GateNode(c)), 1000)
            /\ ~HasIncidentTriangle(sim_mesh, GateNode(c)) => gates[c].normal = <<0, 0, 1000>>
            /\ gates[c].normal # <<0, 0, 0>>

\* C22: the march of every cluster starts at its member of largest time-to-solidify,
\* every move goes to a node adjacent in the mesh with a time-to-solidify at least as
\* large, the march makes at most 10 moves, and there is exactly one gate per cluster,
\* carrying the id of that cluster
C22_GateMarch ==
    GatesReturned =>
        /\ Len(gates) = Len(clusters)
        /\ \A c \in 1..Len(clusters) :
              LET path == GateMarch(t_solid, clusters[c])
                  members == {clusters[c].indices[k] : k \in 1..Len(clusters[c].indices)}
              IN  /\ path[1] \in members
                  /\ \A m \in members : t_solid[m] <= t_solid[path[1]]
                  /\ Len(path) - 1 <= 10
                  /\ \A k \in 1..(Len(path) - 1) :
                        /\ t_solid[path[k + 1]] >= t_solid[path[k]]
                        /\ path[k + 1] # path[k] => TopoAdjacent(sim_mesh, path[k], path[k + 1])
                  /\ gates[c].point = sim_mesh.nodes[path[Len(path)] + 1]
                  /\ gates[c].feeds_cluster_id = clusters[c].id

(***************************************************************************)
(* Timestep events                                                         *)
(***************************************************************************)
\* the timestep events yielded so far, in order
TimestepEvents == SelectSeq(events, LAMBDA ev : ev.type = "timestep")

\* C23: in streaming mode there is exactly one timestep event per saved step, in
\* increasing step order; a step that saves hands its event over before anything else is
\* computed, and from the emission to the request for the next event the temperature and
\* the derived fields do not change and no solve takes place
C23_TimestepHandover ==
    [][args.streaming =>
          /\ Len(results') > Len(results) =>
                /\ pc' = "yield_step"
                /\ Len(results') = Len(results) + 1
                /\ events' = Append(events, [type |-> "timestep",
                                             data |-> results'[Len(results')],
                                             step |-> Len(results'),
                                             progress |-> (step * 100) \div n_steps])
                /\ results'[Len(results')].temperature = T'
                /\ results'[Len(results')].time_s = step * dt_s
                /\ \A k \in 1..Len(results) : results[k].time_s < results'[Len(results')].time_s
                /\ step' = step
          /\ pc = "yield_step" =>
                /\ T' = T /\ T_prev' = T_prev /\ cooling_rate' = cooling_rate
                /\ grad_T' = grad_T /\ niyama' = niyama
                /\ solved' = solved /\ results' = results /\ events' = events
          /\ Len(TimestepEvents') = Len(results')
          /\ \A k \in 1..Len(TimestepEvents') :
                TimestepEvents'[k].step = k /\ TimestepEvents'[k].data = results'[k]]_vars

\* a streaming run is paused at the hand-over of its third timestep event, with the
\* fields of that event
C23_Witness ==
    /\ args.streaming
    /\ pc = "yield_step"
    /\ Len(TimestepEvents) = 3
    /\ events[Len(events)].type = "timestep"
    /\ events[Len(events)].data.temperature = T
    /\ solved = step + 1

(***************************************************************************)
(* The assembled operators and the inputs                                  *)
(***************************************************************************)
\* the operators of this run have been assembled
Assembled == K # <<>>

\* C24: the conductance matrix, the capacity matrix and the boundary-area vector are
\* assembled exactly once, before the first step; no step, snapshot or defect analysis
\* changes them, the mesh input or the material entry
C24_AssembledOnce ==
    [][/\ opVars' # opVars =>
              /\ ~Assembled /\ pc = "created" /\ solved = 0 /\ results = <<>>
              /\ K' = AssembleK(mesh_data, self_material)
              /\ M' = AssembleM(mesh_data, self_material)
              /\ node_bc_area' = AssembleBcArea(mesh_data)
       /\ (solved' > solved \/ results' # results \/ final_result' # final_result) =>
              Assembled /\ opVars' = opVars
       /\ mesh_data' = mesh_data
       /\ material' = material]_vars

\* a run on a mesh with a convecting surface has solved twice, saved a snapshot and
\* analysed its defects with the operators of its set-up
C24_Witness ==
    /\ pc \in {"returned", "yield_complete"}
    /\ solved >= 2 /\ Len(results) >= 1 /\ final_result # <<>>
    /\ \E i \in DOMAIN node_bc_area : node_bc_area[i] > 0
    /\ K = AssembleK(mesh_data, self_material)
    /\ M = AssembleM(mesh_data, self_material)
    /\ node_bc_area = AssembleBcArea(mesh_data)

(***************************************************************************)
(* Saved snapshots                                                         *)
(***************************************************************************)
\* C25: in every saved snapshot the liquid fraction of every node is the lever rule of
\* that snapshot's own temperature at the node
C25_SnapshotLeverRule ==
    \A k \in 1..Len(results) :
        \A i \in DOMAIN results[k].temperature :
            results[k].liquid_fraction[i] = LeverRule(self_material, results[k].temperature[i])

\* the run has left its loop after at least one step
LoopLeft == pc \in {"finalize", "returned", "yield_complete"} /\ solved > 0

\* C26: when a run that took at least one step leaves its loop, the last saved snapshot
\* holds the temperature field from which the summary and the defect report are computed
C26_LastSnapshotIsTerminal ==
    LoopLeft => /\ Len(results) > 0
                /\ results[Len(results)].temperature = T

\* C27: in a streaming run the timestep events never outnumber the total_steps of the init
\* event, the k-th of them carries step = k, and num_timesteps of the summary of the complete payload is
\* their number
C27_AnnouncedStepCount ==
    (args # NoArgs /\ args.streaming /\ Len(events) > 0) =>
        /\ events[1].type = "init"
        /\ Len(TimestepEvents) <= events[1].total_steps
        /\ \A k \in 1..Len(TimestepEvents) : TimestepEvents[k].step = k
        /\ \A e \in 1..Len(events) :
              events[e].type = "complete" => events[e].data.summary.num_timesteps = Len(TimestepEvents)

\* C28: a run that has started on an accepted mesh raises nothing, and when it is over it
\* has produced its final result (in streaming mode as the complete event), also on a
\* mesh without a surface_triangles entry
C28_RunProducesFinalResult ==
    (constructed /\ BodyStarted) =>
        /\ error = "none"
        /\ pc \in {"returned", "yield_complete", "exhausted"} =>
              /\ final_result # <<>>
              /\ args.streaming => \E e \in 1..Len(events) : events[e].type = "complete"

(***************************************************************************)
(* Clusters as a partition                                                 *)
(***************************************************************************)
\* the nodes whose composite score is at or above the 85 % quantile; a comparison with a
\* NaN threshold is false
AboveThreshold ==
    IF HasNaN(t_solid) \/ HasNaN(min_niyama) THEN {}
    ELSE LET n == Cardinality(DOMAIN t_solid)
             score == Vec(ToSeq([r \in 1..n |-> Score(t_solid, min_niyama, r - 1)], n))
         IN  UNION {{i \in DOMAIN t_solid : 20 * score[i] >= thr} : thr \in {Quantile85x20(score)}}

MembersOf(c) == {clusters[c].indices[k] : k \in 1..Len(clusters[c].indices)}

ClustersReturned == sim_pc \in {"clustered", "gated", "export_failed", "exported"}

\* C29: the clusters partition the flagged nodes: every node at or above the threshold is
\* in exactly one cluster, no cluster holds an unflagged node or an index twice, no
\* cluster is empty, and a non-empty input gives at least one cluster
C29_ClustersPartitionFlagged ==
    ClustersReturned => \A F \in {AboveThreshold} :
        /\ \A i \in F : Cardinality({c \in 1..Len(clusters) : i \in MembersOf(c)}) = 1
        /\ \A c \in 1..Len(clusters) :
              /\ MembersOf(c) \subseteq F
              /\ Cardinality(MembersOf(c)) = Len(clusters[c].indices)
              /\ Len(clusters[c].indices) > 0
        /\ DOMAIN t_solid # {} => Len(clusters) >= 1

\* two clusters have been returned, one of them of several nodes, with nodes left unflagged
C29_Witness ==
    /\ ClustersReturned
    /\ Len(clusters) >= 2
    /\ \E c \in 1..Len(clusters) : Len(clusters[c].indices) >= 2
    /\ AboveThreshold # DOMAIN t_solid
    /\ AboveThreshold # {}

(***************************************************************************)
(* Phase counts of a snapshot                                              *)
(***************************************************************************)
\* C30: in every saved snapshot the liquid, mushy and solid counts add up to the number
\* of nodes, hotspot_nodes has liquid_nodes members, and every porosity node has its
\* temperature in the mushy band, also after a solve that returned NaN
C30_PhaseCountsPartition ==
    \A k \in 1..Len(results) :
        /\ results[k].liquid_nodes + results[k].mushy_nodes + results[k].solid_nodes
              = Cardinality(DOMAIN results[k].temperature)
        /\ Cardinality(results[k].hotspot_nodes) = results[k].liquid_nodes
        /\ \A i \in results[k].porosity_nodes :
              /\ ~IsNaN(results[k].temperature[i])
              /\ results[k].temperature[i] >= self_material.solidus
              /\ results[k].temperature[i] <= self_material.liquidus

====
